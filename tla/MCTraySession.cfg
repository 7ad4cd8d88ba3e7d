CONSTANTS
  mail = mail
  chat = chat
  usb = usb
  apps = apps
  shell = shell
  NoNotification = NoNotification
  Notifications = {mail, chat}
  Sources = {apps}
  SourceOf <- MCSourceOf2
  Transient = {mail}
  Resident = {chat}
  Feedback = {}
  Chats = {chat}
  MaxQueue = 1
  MaxPerSource = 2
  Policies = {"banners", "off"}
  Toggles = {"blocked"}
  MaxWatches = 1
SPECIFICATION Spec
PROPERTIES
  DestroyedGoesAway
