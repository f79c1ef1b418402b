CONSTANTS
  Listeners = {l}
  Clients = {c}
  Guests = {g}
  Host <- ToTheListener
  Namings <- OwnOrOne
  IOType <- Both
  MaxBytes = 2
SPECIFICATION FairSpec
INVARIANTS TypeOK ReceivedInOrder SentInOrder WrittenToOne
PROPERTY UnservedOnlyByOldSelect
