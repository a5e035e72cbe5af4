------------------------------ MODULE ComProperty ------------------------------
(***************************************************************************)
(* Set_ComProperty, Set_SecProperty and what RTMC_Connect makes of them.    *)
(* Set_ComProperty stores the controller first and then validates the        *)
(* client's own address and ports against a machine that other processes     *)
(* use: ports are bound and freed, network interfaces come and go, and a     *)
(* port that cannot be bound costs a socket that is never closed.            *)
(*                                                                          *)
(* The calls run one at a time (RTMCClient shows why).                        *)
(***************************************************************************)
EXTENDS Naturals

CONSTANTS Controllers,  \* address and port of a controller
          NotAddress,   \* a string that is no IP address
          Addresses,    \* the addresses the client's machine may have
          NoAddress,    \* ""
          Ports,
          Securities,   \* sets of security files, and their absence
          NoSecurity,
          MaxSockets    \* the descriptors the process can still open

ASSUME PortsAssumption == Ports \subseteq Nat \ {0} /\ NoAddress \notin Addresses
ASSUME SecurityAssumption == NoSecurity \in Securities
ASSUME SocketsAssumption == MaxSockets \in Nat

VARIABLES
  com_property, com_property_option, com_property_option_flag, sec_property,
  object, link,  \* DDSCommunication_Ptr # nullptr, and DDSConnection()
  used,          \* the configuration of the object's participant
  checking, arg, \* the check a call has come to, and its option
  sockets,       \* sockets that are left open
  nics, bound,   \* the machine: its addresses, and the ports other processes have
  last, failed,  \* history: the last successful call; whether one failed after it
  free           \* history: ports this call found free

options == <<com_property_option, com_property_option_flag>>
config  == <<com_property, options, sec_property>>
dds     == <<object, link, used>>
machine == <<nics, bound>>
history == <<last, failed>>
checks  == <<sockets, free>>
vars == <<config, dds, machine, history, checks, checking, arg>>
----------------------------------------------------------------------------------
Options  == [client_ip_address : Addresses \cup {NoAddress},
             client_builtinmsg_port : Ports \cup {0}, client_userdata_port : Ports \cup {0}]
NoOption == [client_ip_address |-> NoAddress, client_builtinmsg_port |-> 0, client_userdata_port |-> 0]

(* Every member of the option differs from the default. *)
Full(o) == /\ o.client_ip_address # NoAddress
           /\ o.client_builtinmsg_port # 0 /\ o.client_userdata_port # 0

isIPAddress(c) == c \in Controllers

Init ==
  /\ com_property \in Controllers
  /\ com_property_option = NoOption /\ com_property_option_flag = FALSE
  /\ sec_property = NoSecurity
  /\ object = FALSE /\ link = FALSE
  /\ used = [rc |-> com_property, option |-> NoOption, sec |-> NoSecurity]
  /\ checking = "nothing" /\ arg = NoOption /\ sockets = 0
  /\ nics \in SUBSET Addresses /\ bound = {}
  /\ last = [rc |-> com_property, option |-> NoOption] /\ failed = FALSE
  /\ free = {}
----------------------------------------------------------------------------------
(* Set_ComProperty. *)

Succeed(option) ==
  /\ checking' = "nothing" /\ arg' = NoOption
  /\ last' = [rc |-> com_property', option |-> option] /\ failed' = FALSE

Fail ==
  /\ checking' = "nothing" /\ arg' = NoOption
  /\ failed' = TRUE
  /\ UNCHANGED last

(* A variant that only looks at a connection that stands.                     *)
EstablishedLink == object /\ link

Established == object

(* A string that is no address, or CLIENT_ERR: nothing is stored.             *)
Refuse(c) ==
  /\ checking = "nothing"
  /\ ~isIPAddress(c) \/ Established
  /\ UNCHANGED vars

Store(c) ==
  /\ checking = "nothing"
  /\ isIPAddress(c) /\ ~Established
  /\ com_property' = c /\ UNCHANGED sec_property

(* Without a full option the client's address is left to DDS.  The variant    *)
(* leaves the option that was set before.                                     *)
KeepOption == UNCHANGED options

ClearOption == /\ com_property_option_flag' = FALSE
               /\ UNCHANGED com_property_option

SetController(c, o) ==
  /\ Store(c) /\ ~Full(o)
  /\ ClearOption
  /\ Succeed(NoOption)
  /\ UNCHANGED <<dds, checks, machine>>

SamePorts(c, o) ==
  /\ Store(c) /\ Full(o) /\ o.client_builtinmsg_port = o.client_userdata_port
  /\ Fail
  /\ UNCHANGED <<options, dds, checks, machine>>

SetOption(c, o) ==
  /\ Store(c) /\ Full(o) /\ o.client_builtinmsg_port # o.client_userdata_port
  /\ checking' = "address" /\ arg' = o /\ free' = {}
  /\ UNCHANGED <<options, dds, sockets, machine, history>>

Check_ValidIP ==
  /\ checking = "address"
  /\ IF arg.client_ip_address \in nics
       THEN checking' = "builtin" /\ UNCHANGED <<arg, history>>
       ELSE Fail
  /\ UNCHANGED <<config, dds, checks, machine>>

(* getifaddrs or socket fails: CLIENT_UNDEF_ERR.                              *)
CheckFails ==
  /\ \/ checking = "address"
     \/ checking \in {"builtin", "userdata"} /\ sockets = MaxSockets
  /\ Fail
  /\ UNCHANGED <<config, dds, checks, machine>>

(* The port that is checked.  The variant checks the first one twice.         *)
FirstPort == arg.client_builtinmsg_port

CheckedPort == IF checking = "builtin" THEN arg.client_builtinmsg_port ELSE arg.client_userdata_port

Bindable(port) == arg.client_ip_address \in nics /\ <<arg.client_ip_address, port>> \notin bound

PortChecked ==
  /\ checking \in {"builtin", "userdata"} /\ sockets < MaxSockets
  /\ Bindable(CheckedPort)
  /\ free' = free \cup {<<arg.client_ip_address, CheckedPort>>}

(* The socket that was bound is closed.                                       *)
Check_BuiltinPort ==
  /\ PortChecked /\ checking = "builtin"
  /\ checking' = "userdata"
  /\ UNCHANGED <<config, arg, dds, sockets, machine, history>>

Check_UserPort ==
  /\ PortChecked /\ checking = "userdata"
  /\ com_property_option' = arg /\ com_property_option_flag' = TRUE
  /\ UNCHANGED <<com_property, sec_property, dds, sockets, machine>>
  /\ Succeed(arg)

(* Check_ValidPort returns CLIENT_ARG_ERR and its socket stays open.          *)
PortRefused ==
  /\ checking \in {"builtin", "userdata"} /\ sockets < MaxSockets
  /\ ~Bindable(CheckedPort)
  /\ sockets' = sockets + 1
  /\ Fail
  /\ UNCHANGED <<config, dds, free, machine>>
----------------------------------------------------------------------------------
(* Set_SecProperty; with an object, CLIENT_ERR.                               *)
Set_SecProperty(s) ==
  /\ checking = "nothing"
  /\ sec_property' = IF Established THEN sec_property ELSE s
  /\ UNCHANGED <<com_property, options, dds, machine, history, checks, checking, arg>>
----------------------------------------------------------------------------------
(* RTMC_Connect creates the participant with Config_ParticipantQoS, after it   *)
(* has deleted an object whose link is down; RTMC_DisConnect deletes it.       *)

Config_ParticipantQoS ==
  [rc |-> com_property, sec |-> sec_property,
   option |-> IF com_property_option_flag THEN com_property_option ELSE NoOption]

Connect ==
  /\ checking = "nothing" /\ ~(object /\ link)
  /\ object' = TRUE /\ link' = TRUE /\ used' = Config_ParticipantQoS
  /\ UNCHANGED <<config, machine, history, checks, checking, arg>>

Disconnect ==
  /\ checking = "nothing" /\ object
  /\ object' = FALSE /\ link' = FALSE
  /\ UNCHANGED <<config, used, machine, history, checks, checking, arg>>

LinkLost ==
  /\ link /\ link' = FALSE
  /\ UNCHANGED <<config, object, used, machine, history, checks, checking, arg>>
----------------------------------------------------------------------------------
(* The machine (external). *)

BindOrFree ==
  /\ \E a \in Addresses, p \in Ports :
       bound' = IF <<a, p>> \in bound THEN bound \ {<<a, p>>} ELSE bound \cup {<<a, p>>}
  /\ UNCHANGED <<config, dds, nics, history, checks, checking, arg>>

InterfaceChanges ==
  /\ \E a \in Addresses : nics' = IF a \in nics THEN nics \ {a} ELSE nics \cup {a}
  /\ UNCHANGED <<config, dds, bound, history, checks, checking, arg>>
----------------------------------------------------------------------------------
Set_ComProperty(c, o) == Refuse(c) \/ SetController(c, o) \/ SamePorts(c, o) \/ SetOption(c, o)

Checking == Check_ValidIP \/ CheckFails \/ Check_BuiltinPort \/ Check_UserPort \/ PortRefused

Next == \/ \E c \in Controllers \cup {NotAddress}, o \in Options : Set_ComProperty(c, o)
        \/ \E s \in Securities : Set_SecProperty(s)
        \/ Checking
        \/ Connect \/ Disconnect \/ LinkLost
        \/ BindOrFree \/ InterfaceChanges

Spec == Init /\ [][Next]_vars
----------------------------------------------------------------------------------
(* Properties. *)

(* Types; and a call that checks an option runs without an object.            *)
TypeOK ==
  /\ com_property \in Controllers /\ com_property_option \in Options
  /\ com_property_option_flag \in BOOLEAN /\ sec_property \in Securities
  /\ object \in BOOLEAN /\ link \in BOOLEAN
  /\ used \in [rc : Controllers, sec : Securities, option : Options]
  /\ last \in [rc : Controllers, option : Options]
  /\ checking \in {"nothing", "address", "builtin", "userdata"} /\ arg \in Options
  /\ sockets \in 0 .. MaxSockets
  /\ nics \subseteq Addresses /\ bound \subseteq Addresses \X Ports /\ free \subseteq Addresses \X Ports
  /\ failed \in BOOLEAN
  /\ checking # "nothing" => ~object

(* A connection uses the option of the last successful Set_ComProperty, none   *)
(* if that call gave none, whatever calls failed in between; only the          *)
(* controller may be that of a failed call.                                    *)
UsesLastOption ==
  object => used.option = last.option /\ (used.rc = last.rc \/ failed)

(* While there is an object, whether its link stands or not, Set_ComProperty   *)
(* and Set_SecProperty change nothing: the configuration, security included,   *)
(* stays the one that the object's participant was created with.               *)
ConfigurationFixed == object => used = Config_ParticipantQoS

(* An option is stored only by a call that found both of its ports free, and   *)
(* different, on an address of the machine.                                    *)
OptionChecked ==
  [][com_property_option' # com_property_option \/ (com_property_option_flag' /\ ~com_property_option_flag) =>
       /\ com_property_option' = arg
       /\ arg.client_builtinmsg_port # arg.client_userdata_port
       /\ {<<arg.client_ip_address, arg.client_builtinmsg_port>>,
           <<arg.client_ip_address, arg.client_userdata_port>>} \subseteq free']_vars
=================================================================================
