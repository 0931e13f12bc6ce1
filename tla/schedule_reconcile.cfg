SPECIFICATION Spec

CONSTANTS
    c1 = c1  c2 = c2  c3 = c3  u1 = u1  u2 = u2  k1 = k1
    mine = mine  x = x  y = y  t1 = t1  self = self
    none = none  chat = chat
    NoKey = NoKey
    Keep = Keep
    Calls = {c1, c2}
    Users = {u1}
    Keys = {k1}
    Others = {mine}
    Texts = {x, y}
    Conversations = {none, chat}
    Tools = {t1, self}
    Unschedulable = {self}
    Requests <- MCEdits
    Stored <- MCStored
    MaxRevision = 4
    MaxChanges = 1
    Anticipate = FALSE

INVARIANT ReconcileOnlyReads
