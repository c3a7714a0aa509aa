SPECIFICATION Spec
INVARIANTS
  TypeOK
  LedsFollowCommands
