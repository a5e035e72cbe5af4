--------------------------- MODULE ComProperty_proofs ---------------------------
(***************************************************************************)
(* The configuration of a connection, for any controllers, addresses, ports  *)
(* and number of descriptors, and whatever the machine does meanwhile.       *)
(***************************************************************************)
EXTENDS ComProperty, TLAPS

(* What the next connection would use: the option of the last successful call. *)
NextConnection ==
  /\ Config_ParticipantQoS.option = last.option
  /\ com_property = last.rc \/ failed \/ checking # "nothing"

(* A call that checks an option runs without an object and with two ports.     *)
CheckRuns ==
  checking # "nothing" =>
    /\ ~object
    /\ Full(arg) /\ arg.client_builtinmsg_port # arg.client_userdata_port
    /\ checking = "userdata" => <<arg.client_ip_address, arg.client_builtinmsg_port>> \in free

IInv == /\ TypeOK /\ CheckRuns /\ NextConnection
        /\ UsesLastOption /\ ConfigurationFixed
----------------------------------------------------------------------------------
LEMMA InitInv == Init => IInv
<1> SUFFICES ASSUME Init PROVE IInv
  OBVIOUS
<1>1. NoOption \in Options
  BY DEF NoOption, Options
<1>2. TypeOK
  <2>1. /\ com_property \in Controllers /\ com_property_option \in Options /\ arg \in Options
        /\ used \in [rc : Controllers, sec : Securities, option : Options]
        /\ last \in [rc : Controllers, option : Options]
    BY <1>1, SecurityAssumption DEF Init
  <2>2. sockets \in 0 .. MaxSockets
    BY SocketsAssumption DEF Init
  <2>3. nics \subseteq Addresses /\ bound \subseteq Addresses \X Ports /\ free \subseteq Addresses \X Ports
    BY DEF Init
  <2>4. QED
    BY <2>1, <2>2, <2>3, SecurityAssumption DEF Init, TypeOK
<1>3. CheckRuns /\ UsesLastOption /\ ConfigurationFixed
  BY DEF Init, CheckRuns, UsesLastOption, ConfigurationFixed
<1>4. NextConnection
  BY DEF Init, NextConnection, Config_ParticipantQoS
<1>5. QED
  BY <1>2, <1>3, <1>4 DEF IInv

LEMMA StepInv == IInv /\ [Next]_vars => IInv'
<1> SUFFICES ASSUME IInv, [Next]_vars PROVE IInv'
  OBVIOUS
<1> USE DEF CheckRuns, Full, NextConnection, Config_ParticipantQoS, UsesLastOption,
            ConfigurationFixed, options, config, dds, machine, history, checks, vars
<1>1. CASE UNCHANGED vars
  BY <1>1 DEF IInv, TypeOK
<1>2. ASSUME NEW c \in Controllers \cup {NotAddress}, NEW o \in Options, Set_ComProperty(c, o)
      PROVE  IInv'
  <2>1. CASE Refuse(c)
    BY <2>1 DEF Refuse, IInv, TypeOK
  <2>2. CASE SetController(c, o)
    <3>1. NoOption \in Options
      BY DEF NoOption, Options
    <3>2. QED
      BY <2>2, <3>1 DEF SetController, Store, isIPAddress, Established, ClearOption, Succeed, IInv, TypeOK
  <2>3. CASE SamePorts(c, o)
    <3>1. NoOption \in Options
      BY DEF NoOption, Options
    <3>2. QED
      BY <2>3, <3>1 DEF SamePorts, Store, isIPAddress, Established, Fail, IInv, TypeOK
  <2>4. CASE SetOption(c, o)
    BY <2>4 DEF SetOption, Store, isIPAddress, Established, IInv, TypeOK
  <2>5. QED
    BY <1>2, <2>1, <2>2, <2>3, <2>4 DEF Set_ComProperty
<1>3. CASE Checking
  <2>1. NoOption \in Options
    BY DEF NoOption, Options
  <2>2. CASE Check_ValidIP
    BY <2>1, <2>2 DEF Check_ValidIP, Fail, IInv, TypeOK
  <2>3. CASE CheckFails
    BY <2>1, <2>3 DEF CheckFails, Fail, IInv, TypeOK
  <2>4. ASSUME PortChecked PROVE free' \subseteq Addresses \X Ports
    <3>1. arg \in Options /\ nics \subseteq Addresses /\ arg.client_ip_address \in nics
      BY <2>4 DEF IInv, TypeOK, PortChecked, Bindable
    <3>2. CheckedPort \in Ports \cup {0}
      BY <3>1 DEF CheckedPort, Options
    <3>3. CheckedPort # 0
      BY <2>4 DEF IInv, PortChecked, CheckedPort
    <3>4. QED
      BY <2>4, <3>1, <3>2, <3>3 DEF IInv, TypeOK, PortChecked
  <2>5. CASE Check_BuiltinPort
    BY <2>4, <2>5 DEF Check_BuiltinPort, PortChecked, CheckedPort, IInv, TypeOK
  <2>6. CASE Check_UserPort
    BY <2>1, <2>4, <2>6 DEF Check_UserPort, PortChecked, Succeed, IInv, TypeOK
  <2>7. CASE PortRefused
    BY <2>1, <2>7, SocketsAssumption DEF PortRefused, Fail, IInv, TypeOK
  <2>8. QED
    BY <1>3, <2>2, <2>3, <2>5, <2>6, <2>7 DEF Checking
<1>4. CASE Connect
  <2>1. used' \in [rc : Controllers, sec : Securities, option : Options]
    <3>1. NoOption \in Options
      BY DEF NoOption, Options
    <3>2. QED
      BY <1>4, <3>1 DEF Connect, IInv, TypeOK
  <2>2. QED
    BY <1>4, <2>1 DEF Connect, IInv, TypeOK
<1>5. CASE Disconnect
  BY <1>5 DEF Disconnect, IInv, TypeOK
<1>6. CASE LinkLost
  BY <1>6 DEF LinkLost, IInv, TypeOK
<1>7. CASE BindOrFree
  BY <1>7 DEF BindOrFree, IInv, TypeOK
<1>8. CASE InterfaceChanges
  BY <1>8 DEF InterfaceChanges, IInv, TypeOK
<1>9. ASSUME NEW s \in Securities, Set_SecProperty(s) PROVE IInv'
  BY <1>9 DEF Set_SecProperty, Established, IInv, TypeOK
<1>10. QED
  BY <1>1, <1>2, <1>3, <1>4, <1>5, <1>6, <1>7, <1>8, <1>9 DEF Next

LEMMA Invariance == Spec => []IInv
BY InitInv, StepInv, PTL DEF Spec

(* The types, and no check runs while there is an object, for any machine.      *)
THEOREM TypeCorrect == Spec => []TypeOK
<1>1. IInv => TypeOK
  BY DEF IInv
<1>2. QED
  BY <1>1, Invariance, PTL

(* A connection uses the option of the last successful Set_ComProperty.         *)
THEOREM LastOptionTheorem == Spec => []UsesLastOption
<1>1. IInv => UsesLastOption
  BY DEF IInv
<1>2. QED
  BY <1>1, Invariance, PTL

(* Nothing changes the configuration of an object that exists.                  *)
THEOREM FixedTheorem == Spec => []ConfigurationFixed
<1>1. IInv => ConfigurationFixed
  BY DEF IInv
<1>2. QED
  BY <1>1, Invariance, PTL

(* A stored option is one whose two ports the storing call found free.           *)
THEOREM CheckedTheorem == Spec => OptionChecked
<1> DEFINE Stored == com_property_option' # com_property_option
                     \/ (com_property_option_flag' /\ ~com_property_option_flag)
           Proven == /\ com_property_option' = arg
                     /\ arg.client_builtinmsg_port # arg.client_userdata_port
                     /\ {<<arg.client_ip_address, arg.client_builtinmsg_port>>,
                         <<arg.client_ip_address, arg.client_userdata_port>>} \subseteq free'
<1>1. IInv /\ [Next]_vars => [Stored => Proven]_vars
  <2> SUFFICES ASSUME IInv, Next, Stored PROVE Proven
    OBVIOUS
  <2>1. Check_UserPort
    BY DEF Next, Set_ComProperty, Refuse, SetController, Store, ClearOption, SamePorts, SetOption,
           Checking, Check_ValidIP, CheckFails, Check_BuiltinPort, PortRefused, Connect, Disconnect,
           LinkLost, BindOrFree, InterfaceChanges, Set_SecProperty, options, config, vars
  <2>2. QED
    BY <2>1 DEF IInv, CheckRuns, Check_UserPort, PortChecked, CheckedPort
<1>2. QED
  BY <1>1, Invariance, PTL DEF Spec, OptionChecked
=================================================================================
