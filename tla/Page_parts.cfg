SPECIFICATION PageSpec
CONSTANTS
  i1 = i1
  i2 = i2
  i3 = i3
  file = file
  word = word
  link = link
  data = data
  Images = {i1, i2, i3}
  Others = {file}
  Batches = {p1, p2}
  Words = {word}
  Links = {link}
  Data = {data}
  Typed <- TypedMC
  MaxSent = 2
  MaxMounts = 2
  c1 = c1
  c2 = c2
  Chats = {c1, c2}
  Welcome = c1
  r1 = r1
  UserMessages = {p1, p2}
  Answers = {r1}
  welcome = welcome
  new = new
  Texts = {welcome, new}
  Drafts = {new, Blank}
  WelcomeTitle = welcome
  NewTitle = new
  Blank = Blank
  Notices = {i1, i2, i3}
  p1 = p1
  p2 = p2
  Places = {p1, p2}
  url1 = url1
  url2 = url2
  Pictures = {url1, url2}
  MaxUsers = 4
  MaxFetches = 4
  Nil = Nil
SYMMETRY Symmetry
INVARIANTS
  ImagesGoOnce
  PromptsAgree
  DraftsGoHome
  NoticesSeen
  PicturesAreTheirs
CHECK_DEADLOCK FALSE
