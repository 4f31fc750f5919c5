SPECIFICATION MembersSpec
CONSTANTS
  Person = {o, p}
  Founder = o
  Joined = {p}
  OtherRole = {"ADMIN"}
  Asker = {s1, s2}
INVARIANT ActiveNeverPurged
CHECK_DEADLOCK FALSE
