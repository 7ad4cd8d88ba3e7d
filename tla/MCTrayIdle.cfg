CONSTANTS
  mail = mail
  chat = chat
  usb = usb
  apps = apps
  shell = shell
  NoNotification = NoNotification
  Notifications = {mail, chat}
  Sources = {apps}
  SourceOf <- MCSourceOf2
  Transient = {mail}
  Resident = {}
  Feedback = {}
  Chats = {}
  MaxQueue = 2
  MaxPerSource = 2
  Policies = {"banners"}
  Toggles = {"busy"}
  MaxWatches = 1
SPECIFICATION Spec
INVARIANTS
  NothingLeftUndone
