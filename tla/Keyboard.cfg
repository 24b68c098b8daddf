CONSTANTS
  Scancodes <- MCScancodes
  Reads = {"char", "scan"}
  MaxBytes = 4
SPECIFICATION FairSpec
INVARIANTS TypeOK MailboxesAgree CapsXorShift HoldsNewest
PROPERTIES MailboxSpec MailboxDrains
CHECK_DEADLOCK FALSE
