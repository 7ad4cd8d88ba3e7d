CONSTANTS
  mail = mail
  chat = chat
  usb = usb
  apps = apps
  shell = shell
  NoNotification = NoNotification
  Notifications = {mail, chat, usb}
  Sources = {apps, shell}
  SourceOf <- MCSourceOf3
  Transient = {usb}
  Resident = {}
  Feedback = {usb}
  Chats = {}
  MaxQueue = 2
  MaxPerSource = 1
  Policies = {"banners"}
  Toggles = {"busy", "allowed", "fullscreen"}
  MaxWatches = 1
SYMMETRY Alike
SPECIFICATION Spec
INVARIANTS
  TypeOK
  BannerConsistent
  NothingLeftUndoneButByDestruction
  CriticalComesUp
  AutoHidesUnlessBroughtBack
PROPERTIES
  NeverLost
