\* Page of 16 bytes, messages of 4: three slots, of which two are used at a time.
CONSTANTS
  PageSize = 16
  MessageSize = 4
  HeadSize = 4
  Words = 2
  Zero = Zero
  Word = {Zero, w1, w2}
  Messages <- AnyMessage
  Success = Success
  ChannelFull = ChannelFull
  NotFound = NotFound
  None = None
SPECIFICATION Spec
INVARIANTS SlotsDisjoint
PROPERTIES ImplementsFifo
