CONSTANTS
  Text = {binky, ann, here, away, tycom, agmsmith, home, third}
  Empty = empty
  Unset = unset
  Torn = torn
  Binky = binky
  Here = here
  Away = away
  Tycom = tycom
  Agmsmith = agmsmith
  HomeFolder = home
  MaxServers = 2
  MaxNames = 2
  MaxConnections = 2
  Address = {tycom, agmsmith, third}
  Name = {ann}
  Status = {away}
  Patterns = {ann}
  Folder = {home}
  ListenPort = {1}
  Varied = {"firewalled", "sharingenabled", "autoupdateservers", "connectonstartup", "ignorepattern"}
  Kept = {"autoupdateservers"}
  MaxStarts = 2
  MaxSteps = 3
SPECIFICATION Spec
CHECK_DEADLOCK FALSE
PROPERTY ConnectDials
