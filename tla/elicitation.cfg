SPECIFICATION Spec
CONSTANTS
  Questions = {q1, q2}
  Replies = {r1, r2}
  Answers = {a1}
  None = None
INVARIANTS TypeOK Delivered NoneLeftBehind
PROPERTY NothingHangs
CHECK_DEADLOCK FALSE
