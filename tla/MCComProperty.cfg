SPECIFICATION Spec
CONSTANTS
  Controllers = {c1, c2}
  NotAddress = NotAddress
  Addresses = {nic}
  NoAddress = NoAddress
  Ports = {1, 2}
  Securities = {NoSecurity, files}
  NoSecurity = NoSecurity
  MaxSockets = 2
INVARIANT TypeOK
INVARIANT UsesLastOption
INVARIANT ConfigurationFixed
PROPERTY OptionChecked
