\* Two threads that update the status of one order.
SPECIFICATION Spec
CONSTANTS
  Request = {t1, t2}
  Key = {o1}
  NoRow = NoRow
  Nobody = Nobody
  User <- MCUser
  Account <- MCAccount
  Placed <- MCPlaced
  Note <- MCNote
  StatusUpdates <- MCStatusUpdates
  NoteUpdates <- MCNoteUpdates
  o1 = o1
  alice = alice
  dave = dave
  oscar = oscar
  north = north
  south = south
PROPERTIES
  TransitionsFollowTable
