\* Three request frames over two ids, two in flight, and a channel of three.
SPECIFICATION CooperativeSpec
CONSTANTS
  Ids = {1, 2}
  MaxRequests = 3
  MaxData = 1
  MaxInflight = 2
  Slack = 1
INVARIANTS IdNeverAmbiguous CancelReaches
PROPERTIES ImplementsRequestStream EndIsDelivered SessionEnds
