---------------------------- MODULE ProposalFlow ----------------------------
(***************************************************************************)
(* The way of a transaction through the protocol utilities: a client makes *)
(* a proposal, endorsers answer it, the client assembles a transaction     *)
(* from answers it got, blocks are cut and read.  Answers may be lost,     *)
(* duplicated, reordered or mixed up with those to another proposal, and   *)
(* a client may assemble a proposal of another client or the same one      *)
(* twice.                                                                  *)
(***************************************************************************)
EXTENDS ProtoUtil, FiniteSets

CONSTANTS
  Clients,       (* serialized identities of clients                        *)
  Endorsers,     (* serialized identities of peers                          *)
  Channel,       (* the channel                                             *)
  Spec0,         (* the invocation specification of a client                *)
  Package,       (* a chaincode to install or to instantiate                *)
  Secret,        (* transient data                                          *)
  Given,         (* transaction identifiers chosen by the caller            *)
  Outcomes,      (* the status and the result of an execution               *)
  Junk,          (* entries of a block that are no readable envelope        *)
  MaxProposals,  (* bound on the proposals                                  *)
  MaxResponses,  (* bound on the answers a transaction is assembled from    *)
  MaxEnvelopes,  (* bound on what is sent to the orderer                    *)
  MaxMessages    (* bound on the proposals, answers and envelopes together  *)

ASSUME FlowAssumption ==
  /\ Nil \notin Clients \cup Endorsers \cup Given \cup {Channel, Spec0, Package}
  /\ Nil \notin Int
  /\ \A o \in Outcomes : o.status \in Int
  \* who chooses an identifier does not guess one that is computed
  /\ \A txid \in Given, c \in Clients, n \in 0..MaxProposals : txid # ComputeTxID(n, c)
  /\ {MaxProposals, MaxResponses, MaxEnvelopes, MaxMessages} \subseteq Nat

\* the orderer checks a configuration before it orders it
ASSUME JunkAssumption ==
  \A entry \in Junk :
    LET chdr == HeaderOfEnvelope(GetEnvelopeFromBlock(entry))
    IN  chdr = Error \/ chdr.type \notin {"CONFIG", "ORDERER_TRANSACTION"}

VARIABLES
  drawn,         (* the random nonces drawn so far                          *)
  proposals,     (* signed proposals                                        *)
  answers,       (* the responses the endorsers gave                        *)
  submitted,     (* what was sent to the orderer, in the order it arrived   *)
  chain          (* the blocks                                              *)

vars == <<drawn, proposals, answers, submitted, chain>>

\* a configuration update as its signers sign it
ConfigUpdate(signers) ==
  [kind |-> "ConfigUpdateEnvelope", configUpdate |-> Channel,
   signatures |-> [n \in DOMAIN signers |->
     LET header == Marshal(MakeSignatureHeader(signers[n], Nil))
     IN  [signatureHeader |-> header,
          signature       |-> Sign(signers[n], <<header, Channel>>)]]]

Block(number, previousHash, data) ==
  [NewBlock(number, previousHash) EXCEPT !.data = data, !.header.dataHash = BlockDataHash(data)]

Genesis ==
  Block(0, Nil, <<Marshal(CreateSignedEnvelope("CONFIG", Channel, Nil, Nil, ConfigUpdate(<<>>)))>>)

Init ==
  /\ drawn = 0
  /\ proposals = {}
  /\ answers = {}
  /\ submitted = <<>>
  /\ chain = <<Genesis>>

Bounded == drawn + Cardinality(answers) + Len(submitted) < MaxMessages

Record(prop, client, txid) ==
  /\ Bounded /\ drawn < MaxProposals
  /\ drawn' = drawn + 1
  /\ proposals' = proposals \cup {[signed |-> GetSignedProposal(prop, client), txid |-> txid]}
  /\ UNCHANGED <<answers, submitted, chain>>

\* an invocation with or without transient data
Propose(c) ==
  \E tr \in {Nil, Secret} :
    Record(CreateChaincodeProposalWithTransient("ENDORSER_TRANSACTION", Channel, Spec0,
                                                drawn, c, tr), c, Nil)

\* an invocation under an identifier that may be given
ProposeAs(c) ==
  \E txid \in Given \cup {Nil} :
    \/ Record(CreateChaincodeProposalWithTxIDAndTransient("ENDORSER_TRANSACTION", Channel,
                                             Spec0, drawn, c, txid, Secret), c, txid)
    \/ Record(CreateProposalFromCISAndTxid(txid, "ENDORSER_TRANSACTION", Channel, Spec0,
                                           drawn, c), c, txid)

\* an invocation of the system chaincode that keeps the chaincodes
ProposeLifecycle(c) ==
  \/ Record(CreateGetChaincodesProposal(Channel, drawn, c), c, Nil)
  \/ Record(CreateGetInstalledChaincodesProposal(drawn, c), c, Nil)
  \/ Record(CreateInstallProposalFromCDS(Package, drawn, c), c, Nil)
  \/ \E propType \in {"deploy", "upgrade"} :
       Record(CreateLifecycleProposal(propType, Channel, Package, drawn, c, <<>>, Nil), c, Nil)

\* an endorser executes a proposal, once
Endorse(e, p) ==
  LET prop == p.signed.proposalBytes
  IN  /\ Bounded
      /\ \A a \in answers : a.by # e \/ a.to # p
      /\ \E o \in Outcomes :
           LET response ==
                 IF o.status >= 400
                 THEN CreateProposalResponseFailure(prop.header, prop.proposalPayload, o.status,
                                                    o.result, Spec0.chaincodeId)
                 ELSE CreateProposalResponse(prop.header, prop.proposalPayload, o.status,
                                             o.result, Spec0.chaincodeId, e)
           IN  answers' = answers \cup {[by |-> e, to |-> p, response |-> response]}
      /\ UNCHANGED <<drawn, proposals, submitted, chain>>

Send(entry, of, with) ==
  /\ Bounded /\ Len(submitted) < MaxEnvelopes
  /\ submitted' = Append(submitted, [entry |-> entry, of |-> of, with |-> with])
  /\ UNCHANGED <<drawn, proposals, answers, chain>>

\* c assembles p from some of the answers there are
Assemble(c, p) ==
  \E with \in SeqOf(answers, MaxResponses) :
    LET env == CreateSignedTx(p.signed.proposalBytes, c,
                              [n \in DOMAIN with |-> with[n].response])
    IN  env # Error /\ Send(Marshal(env), p, with)

\* a client asks for another configuration, the orderer puts one in force
SendConfig ==
  \/ \E c \in Clients :
       Send(Marshal(CreateSignedEnvelope("CONFIG_UPDATE", Channel, c, drawn, ConfigUpdate(<<c>>))),
            Nil, <<>>)
  \/ Send(Marshal(CreateSignedEnvelope("CONFIG", Channel, Nil, Nil, ConfigUpdate(<<>>))),
          Nil, <<>>)

SendJunk == \E entry \in Junk : Send(entry, Nil, <<>>)

\* how many of submitted are in blocks: genesis has an entry of its own
Entries == UNION {{n} \X DOMAIN chain[n].data : n \in DOMAIN chain}
Ordered == Cardinality(Entries) - 1

LastConfig(blocks) == Max({n \in DOMAIN blocks : IsConfigBlock(blocks[n])}) - 1

Consenters == [kind |-> "Metadata", value |-> Channel]

\* what orderers of different age write: nothing, the positions there were
\* before 1.4.1, and those of today
MetadataOf(age, lastConfig) ==
  LET index == Marshal([kind |-> "Metadata",
                        value |-> Marshal([kind |-> "LastConfig", index |-> lastConfig])])
  IN  CASE age = "old" -> <<Nil, index, Nil, Consenters>>
        [] age = "new" ->
             <<[kind |-> "Metadata", value |-> [kind |-> "OrdererBlockMetadata",
                                                consenterMetadata |-> Consenters]],
               index, Nil, Nil, Nil>>

Cut(age) ==
  /\ Ordered < Len(submitted)
  /\ LET data  == [k \in 1..Len(submitted) - Ordered |-> submitted[Ordered + k].entry]
         block == Block(Len(chain), BlockHeaderHash(chain[Len(chain)].header), data)
     IN  chain' = Append(chain, [block EXCEPT !.metadata =
                                   MetadataOf(age, LastConfig(Append(chain, block)))])
  /\ UNCHANGED <<drawn, proposals, answers, submitted>>

Next ==
  \/ \E c \in Clients : Propose(c) \/ ProposeAs(c) \/ ProposeLifecycle(c)
  \/ \E e \in Endorsers, p \in proposals : Endorse(e, p)
  \/ \E c \in Clients, p \in proposals : Assemble(c, p)
  \/ SendConfig \/ SendJunk
  \/ \E age \in {"old", "new"} : Cut(age)

Spec == Init /\ [][Next]_vars

(******************************** properties *******************************)

Transactions == {n \in DOMAIN submitted : submitted[n].of # Nil}

Envelope(n)    == Unmarshal("Envelope", submitted[n].entry)
Payload(n)     == Unmarshal("Payload", Envelope(n).payload)
SigHeader(n)   == Unmarshal("SignatureHeader", Payload(n).header.signatureHeader)
ActionPayload(n) ==
  GetPayloads(Unmarshal("Transaction", Payload(n).data).actions[1]).ccPayload

\* The committer finds the hash the endorsers signed (GetProposalHash1 of what
\* they were sent) to be that of the transaction (GetProposalHash2 of what is
\* in it) exactly when the client took the answers to this proposal:
\* CreateSignedTx itself does not look whether they are.
HashBindsResponses ==
  \A n \in Transactions :
    LET cap == ActionPayload(n)
    IN  GetProposalHash2(Payload(n).header, cap.chaincodeProposalPayload) =
          Unmarshal("ProposalResponsePayload", cap.action.prp).proposalHash
        <=> \A k \in DOMAIN submitted[n].with : submitted[n].with[k].to = submitted[n].of

\* Every endorsement in a transaction is the signature of the endorser it names
\* over the very response that the transaction carries (the bitwise comparison
\* of CreateSignedTx), and what the chaincode answered in it is no failure (the
\* endorser's answer has its own status, which CreateProposalResponse and
\* CreateProposalResponseFailure have to keep in step).
EndorsementsVerify ==
  \A n \in Transactions :
    LET action == ActionPayload(n).action
    IN  /\ GetActionFromEnvelopeMsg(Envelope(n)).response < 400
        /\ \A k \in DOMAIN action.endorsements :
             /\ action.endorsements[k] # Nil
             /\ action.endorsements[k].signature =
                  Sign(action.endorsements[k].endorser, <<action.prp, action.endorsements[k].endorser>>)

\* Nothing that is ordered has transient data in it.
TransientStaysPrivate ==
  \A n \in Transactions :
    LET cpp == Unmarshal("ChaincodeProposalPayload", ActionPayload(n).chaincodeProposalPayload)
    IN  cpp.transientMap = Nil /\ cpp.input # Nil

\* Whatever is ordered and names somebody verifies as signed by them: the envelope
\* and, in a configuration, each signature.
EnvelopesVerify ==
  LET Verifies(sd) == sd.identity # Nil => sd.signature = Sign(sd.identity, sd.data)
  IN  \A n \in DOMAIN submitted :
        submitted[n].entry \notin Junk =>
          LET update == EnvelopeToConfigUpdate(Envelope(n))
          IN  /\ Verifies(EnvelopeAsSignedData(Envelope(n))[1])
              /\ update # Error =>
                   \A k \in DOMAIN update.signatures :
                     Verifies(ConfigUpdateEnvelopeAsSignedData(update)[k])

\* A transaction is found under the identifier that was given for it, if one was,
\* and otherwise under the one computed from its own header, which no other proposal
\* has, whether its header carries it or not.
TxIDBinds ==
  LET IdOf(p) == GetOrComputeTxIDFromEnvelope(Marshal(SignedEnvelope(
                   [kind   |-> "Payload", data |-> Nil,
                    header |-> Unmarshal("Header", p.signed.proposalBytes.header)], Nil)))
  IN  \A n \in Transactions :
        LET p  == submitted[n].of
            id == GetOrComputeTxIDFromEnvelope(submitted[n].entry)
        IN  /\ id = IF p.txid # Nil THEN p.txid
                                    ELSE ComputeTxID(SigHeader(n).nonce, SigHeader(n).creator)
            /\ \A q \in proposals : p.txid = Nil /\ IdOf(q) = id => q = p

\* What the two ways to the channel of a block say (GetChainIDFromBlock and
\* ChannelID of ExtractEnvelope) is the same wherever both say something, and a
\* block that counts as configuration has a channel.
ReadersAgree ==
  \A n \in DOMAIN chain :
    LET byBlock    == GetChainIDFromBlock(chain[n])
        env        == ExtractEnvelope(chain[n], 0)
        byEnvelope == IF env = Error THEN Error ELSE ChannelID(env)
    IN  /\ byBlock = byEnvelope \/ (byEnvelope = Error /\ byBlock = Nil)
        /\ IsConfigBlock(chain[n]) => byBlock = Channel

\* A peer that copies the metadata of a block, from an orderer of any age, finds
\* what the orderer wrote: the consenters, the last configuration block, and a place
\* for what the peer itself has to write.  So does who still reads the block it was
\* copied from, whose metadata CopyBlockMetadata extends as well.
MetadataReadable ==
  \A n \in 2..Len(chain) : \A side \in {"src", "dst"} :
    LET kept == CopyBlockMetadata(chain[n], NewBlock(n - 1, Nil))[side]
        last == GetLastConfigIndexFromBlock(kept)
    IN  /\ GetConsenterMetadataFromBlock(kept) = Consenters
        /\ last \in 0..n-1 /\ IsConfigBlock(chain[last + 1])
        /\ \A i \in {Index[name] : name \in DOMAIN Index} : GetMetadataFromBlock(kept, i) # Error
=============================================================================
