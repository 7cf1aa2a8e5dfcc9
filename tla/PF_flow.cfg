CONSTANTS
  Nil = Nil
  Error = Error
  alice = alice
  bob = bob
  peer1 = peer1
  peer2 = peer2
  Clients = {alice, bob}
  Endorsers = {peer1, peer2}
  Channel = Channel
  Spec0 <- MCSpec0
  Package = Package
  Secret = Secret
  given = given
  Given = {given}
  Outcomes <- MCOutcomes
  Junk <- MCJunk
  MaxProposals = 2
  MaxResponses = 2
  MaxEnvelopes = 2
  MaxMessages = 4
SYMMETRY Identities
SPECIFICATION Spec
CHECK_DEADLOCK FALSE
INVARIANT HashBindsResponses
INVARIANT EndorsementsVerify
INVARIANT EnvelopesVerify
INVARIANT TxIDBinds
INVARIANT ReadersAgree
INVARIANT MetadataReadable
