------------------------- MODULE ProposalFlow_proofs -------------------------
(***************************************************************************)
(* Proofs about ProposalFlow, for every set of clients, endorsers, given   *)
(* identifiers and unreadable entries, and without the bounds.             *)
(***************************************************************************)
EXTENDS ProposalFlow, SetLemmas, FiniteSetTheorems, SequenceTheorems

\* Neither the empty string nor the error is a message, or any other record.
NoRecord(x) == x # [f \in DOMAIN x |-> x[f]]
Atoms == NoRecord(Nil) /\ NoRecord(Error)

-----------------------------------------------------------------------------
(* Messages and bytes.                                                     *)

\* What was marshaled reads as what it was, also where the bytes are empty.
LEMMA Readable ==
  ASSUME NEW m, m # Nil, NEW kind, m.kind = kind
  PROVE  Unmarshal(kind, Marshal(m)) = m
BY DEF Unmarshal, Marshal

\* A message that is not all default is its own bytes.
LEMMA Opaque ==
  ASSUME NEW m, m # Zero[m.kind]
  PROVE  Marshal(m) = m
BY DEF Marshal

LEMMA OfItself ==
  ASSUME NEW m, m # Nil, NEW kind, m.kind = kind
  PROVE  Unmarshal(kind, m) = m
BY DEF Unmarshal

-----------------------------------------------------------------------------
(* Proposals.                                                              *)

\* what a signed proposal says
Hdr(p)  == Unmarshal("Header", p.signed.proposalBytes.header)
Cpp(p)  == Unmarshal("ChaincodeProposalPayload", p.signed.proposalBytes.proposalPayload)
Chdr(p) == Unmarshal("ChannelHeader", Hdr(p).channelHeader)
Shdr(p) == Unmarshal("SignatureHeader", Hdr(p).signatureHeader)

\* The parts of a proposal are all there and can be read, it names who made it and the
\* nonce he drew, and it is found under the identifier given or one that is not there
\* or computed.
ProposalOK(p) ==
  /\ p = [signed |-> p.signed, txid |-> p.txid]
  /\ p.txid \in Given \cup {Nil}
  /\ p.signed.proposalBytes.proposalPayload # Nil
  /\ Hdr(p) = [kind |-> "Header", channelHeader |-> Hdr(p).channelHeader,
               signatureHeader |-> Hdr(p).signatureHeader]
  /\ Hdr(p).channelHeader # Nil /\ Hdr(p).signatureHeader # Nil
  /\ Cpp(p) = [kind |-> "ChaincodeProposalPayload", input |-> Cpp(p).input,
               transientMap |-> Cpp(p).transientMap]
  /\ Cpp(p).input # Nil
  /\ Chdr(p) # Error /\ Chdr(p).type = "ENDORSER_TRANSACTION"
  /\ Shdr(p) = [kind |-> "SignatureHeader", creator |-> Shdr(p).creator, nonce |-> Shdr(p).nonce]
  /\ Shdr(p).creator \in Clients /\ Shdr(p).nonce \in 0..drawn-1
  /\ Chdr(p).txId \in IF p.txid # Nil THEN {p.txid}
                                      ELSE {Nil, ComputeTxID(Shdr(p).nonce, Shdr(p).creator)}

\* A nonce belongs to one proposal.
ProposalInv ==
  /\ drawn \in 0..MaxProposals
  /\ \A p \in proposals : ProposalOK(p)
  /\ \A p, q \in proposals : Shdr(p).nonce = Shdr(q).nonce => p = q

\* CreateChaincodeProposalWithTxIDNonceAndTransient makes what ProposalOK asks for.
LEMMA ProposalReads ==
  ASSUME Atoms, NEW id, NEW chainID, NEW cis, cis # Nil, NEW nonce, NEW c \in Clients,
         NEW tr, NEW p, NEW prop,
         prop = CreateChaincodeProposalWithTxIDNonceAndTransient(
                  id, "ENDORSER_TRANSACTION", chainID, cis, nonce, c, tr),
         p.signed = GetSignedProposal(prop, c)
  PROVE  /\ p.signed.proposalBytes.proposalPayload # Nil
         /\ Hdr(p) = [kind |-> "Header", channelHeader |-> Hdr(p).channelHeader,
                      signatureHeader |-> Hdr(p).signatureHeader]
         /\ Hdr(p).channelHeader # Nil /\ Hdr(p).signatureHeader # Nil
         /\ Cpp(p) = [kind |-> "ChaincodeProposalPayload", input |-> cis, transientMap |-> tr]
         /\ Chdr(p) # Error /\ Chdr(p).type = "ENDORSER_TRANSACTION" /\ Chdr(p).txId = id
         /\ Shdr(p) = [kind |-> "SignatureHeader", creator |-> c, nonce |-> nonce]
<1> DEFINE ch == [MakeChannelHeader("ENDORSER_TRANSACTION", chainID)
                    EXCEPT !.txId = id, !.extension = cis.chaincodeId]
           sh == MakeSignatureHeader(c, nonce)
           hdr == [kind |-> "Header", channelHeader |-> Marshal(ch),
                   signatureHeader |-> Marshal(sh)]
           cpp == [kind |-> "ChaincodeProposalPayload", input |-> cis, transientMap |-> tr]
<1>1. prop = [kind |-> "Proposal", header |-> Marshal(hdr), proposalPayload |-> Marshal(cpp)]
  BY DEF CreateChaincodeProposalWithTxIDNonceAndTransient, MakePayloadHeader
<1>2. /\ ch.kind = "ChannelHeader" /\ ch.type = "ENDORSER_TRANSACTION" /\ ch.txId = id
      /\ ch # Nil /\ ch # Error /\ ch # Zero["ChannelHeader"]
  <2>1. /\ ch.kind = "ChannelHeader" /\ ch.type = "ENDORSER_TRANSACTION" /\ ch.txId = id
        /\ ch = [f \in DOMAIN ch |-> ch[f]]
    <3> DEFINE m == MakeChannelHeader("ENDORSER_TRANSACTION", chainID)
    <3>1. m = [kind |-> "ChannelHeader", type |-> "ENDORSER_TRANSACTION", channelId |-> chainID,
               txId |-> Nil, extension |-> Nil, tlsCertHash |-> Nil]
      BY DEF MakeChannelHeader
    <3>2. ch = [[m EXCEPT !.txId = id] EXCEPT !.extension = cis.chaincodeId]
      OBVIOUS
    <3> DEFINE k == [m EXCEPT !.txId = id]
    <3>3. k = [kind |-> "ChannelHeader", type |-> "ENDORSER_TRANSACTION", channelId |-> chainID,
               txId |-> id, extension |-> Nil, tlsCertHash |-> Nil]
      BY ONLY <3>1
    <3> HIDE DEF k, ch
    <3>4. ch.kind = "ChannelHeader" /\ ch.type = "ENDORSER_TRANSACTION" /\ ch.txId = id
      BY ONLY <3>2, <3>3 DEF k
    <3>5. ch = [f \in DOMAIN ch |-> ch[f]]
      BY ONLY <3>2, <3>3 DEF k
    <3> QED
      BY ONLY <3>4, <3>5
  <2>2. Zero["ChannelHeader"].type = "MESSAGE"
    BY DEF MakeChannelHeader, Zero
  <2> HIDE DEF ch
  <2> QED
    BY <2>1, <2>2 DEF Atoms, NoRecord
<1>3. /\ sh = [kind |-> "SignatureHeader", creator |-> c, nonce |-> nonce]
      /\ sh # Nil /\ sh # Zero["SignatureHeader"]
  BY FlowAssumption DEF MakeSignatureHeader, Atoms, NoRecord, Zero
<1>4. cpp # Nil /\ cpp # Zero["ChaincodeProposalPayload"] /\ cpp.kind = "ChaincodeProposalPayload"
  BY DEF Atoms, NoRecord, Zero
<1> HIDE DEF ch, sh, cpp
<1>5. Marshal(ch) = ch /\ Marshal(sh) = sh /\ Marshal(cpp) = cpp
  BY <1>2, <1>3, <1>4, Opaque
<1>6. /\ hdr # Nil /\ hdr # Zero["Header"] /\ hdr.kind = "Header"
      /\ hdr = [kind |-> "Header", channelHeader |-> ch, signatureHeader |-> sh]
  BY <1>2, <1>5 DEF Atoms, NoRecord, Zero
<1> HIDE DEF hdr
<1>7. Marshal(hdr) = hdr
  BY <1>6, Opaque
<1>8. prop # Nil /\ prop # Zero["Proposal"] /\ prop.kind = "Proposal"
  BY <1>1, <1>6, <1>7 DEF Atoms, NoRecord, Zero
<1>9. p.signed.proposalBytes = prop
  BY <1>8, Opaque, FlowAssumption DEF GetSignedProposal
<1>10. p.signed.proposalBytes.header = hdr /\ p.signed.proposalBytes.proposalPayload = cpp
  BY <1>1, <1>5, <1>7, <1>9
<1>11. Hdr(p) = hdr /\ Cpp(p) = cpp
  BY <1>4, <1>6, <1>10, OfItself DEF Hdr, Cpp
<1>12. Chdr(p) = ch /\ Shdr(p) = sh
  BY <1>2, <1>3, <1>6, <1>11, OfItself DEF Chdr, Shdr
<1> QED
  BY ONLY <1>2, <1>3, <1>4, <1>6, <1>10, <1>11, <1>12 DEF cpp

\* A proposal with a fresh nonce.
LEMMA RecordOK ==
  ASSUME Atoms, ProposalInv, NEW id, NEW chainID, NEW cis, cis # Nil, NEW c \in Clients,
         NEW tr, NEW txid \in Given \cup {Nil},
         id = txid \/ (txid = Nil /\ id = ComputeTxID(drawn, c)),
         Record(CreateChaincodeProposalWithTxIDNonceAndTransient(
                  id, "ENDORSER_TRANSACTION", chainID, cis, drawn, c, tr), c, txid)
  PROVE  ProposalInv'
<1> DEFINE prop == CreateChaincodeProposalWithTxIDNonceAndTransient(
                     id, "ENDORSER_TRANSACTION", chainID, cis, drawn, c, tr)
<1> PICK new : new = [signed |-> GetSignedProposal(prop, c), txid |-> txid]
  OBVIOUS
<1>1. /\ drawn' = drawn + 1 /\ drawn < MaxProposals /\ drawn \in Nat /\ MaxProposals \in Nat
      /\ proposals' = proposals \cup {new}
  BY FlowAssumption DEF Record, ProposalInv
<1>2. /\ new = [signed |-> new.signed, txid |-> new.txid] /\ new.txid = txid
      /\ new.signed = GetSignedProposal(prop, c)
  OBVIOUS
<1> HIDE DEF prop
<1>3. /\ new.signed.proposalBytes.proposalPayload # Nil
      /\ Hdr(new) = [kind |-> "Header", channelHeader |-> Hdr(new).channelHeader,
                     signatureHeader |-> Hdr(new).signatureHeader]
      /\ Hdr(new).channelHeader # Nil /\ Hdr(new).signatureHeader # Nil
      /\ Cpp(new) = [kind |-> "ChaincodeProposalPayload", input |-> cis, transientMap |-> tr]
      /\ Chdr(new) # Error /\ Chdr(new).type = "ENDORSER_TRANSACTION" /\ Chdr(new).txId = id
      /\ Shdr(new) = [kind |-> "SignatureHeader", creator |-> c, nonce |-> drawn]
  BY <1>2, ProposalReads DEF prop
<1>4. ProposalOK(new)'
  <2>1. Cpp(new).input = cis /\ Cpp(new).transientMap = tr
    BY <1>3
  <2>2. Shdr(new).creator = c /\ Shdr(new).nonce = drawn /\ drawn \in 0..drawn'-1
    BY <1>1, <1>3
  <2> QED
    BY <1>2, <1>3, <2>1, <2>2 DEF ProposalOK
<1>5. \A p \in proposals : ProposalOK(p)' /\ Shdr(p).nonce # drawn
  <2> SUFFICES ASSUME NEW p \in proposals PROVE ProposalOK(p)' /\ Shdr(p).nonce # drawn
    OBVIOUS
  <2>1. ProposalOK(p)
    BY DEF ProposalInv
  <2>2. Shdr(p).nonce \in 0..drawn'-1 /\ Shdr(p).nonce # drawn
    BY <1>1, <2>1 DEF ProposalOK
  <2> QED
    BY <2>1, <2>2 DEF ProposalOK
<1>6. Shdr(new).nonce = drawn
  BY <1>3
<1> QED
  BY <1>1, <1>4, <1>5, <1>6 DEF ProposalInv

\* The other ways to make a proposal come down to that one.
LEMMA ProposeOK ==
  ASSUME Atoms, ProposalInv, NEW c \in Clients, Propose(c) \/ ProposeAs(c) \/ ProposeLifecycle(c)
  PROVE  ProposalInv' /\ proposals \subseteq proposals' /\ UNCHANGED <<answers, submitted, chain>>
<1> USE DEF CreateChaincodeProposalWithTransient, CreateProposalFromCIS
<1>1. Spec0 # Nil /\ Package # Nil /\ \A args : Lscc(args) # Nil
  BY FlowAssumption DEF Lscc, Atoms, NoRecord
<1>2. CASE Propose(c)
  <2>1. PICK tr \in {Nil, Secret} :
          Record(CreateChaincodeProposalWithTransient("ENDORSER_TRANSACTION", Channel, Spec0,
                                                      drawn, c, tr), c, Nil)
    BY <1>2 DEF Propose
  <2> QED
    BY <1>1, <2>1, RecordOK DEF Record
<1>3. CASE ProposeAs(c)
  <2>1. PICK txid \in Given \cup {Nil} :
    \/ Record(CreateChaincodeProposalWithTxIDAndTransient("ENDORSER_TRANSACTION", Channel,
                                             Spec0, drawn, c, txid, Secret), c, txid)
    \/ Record(CreateProposalFromCISAndTxid(txid, "ENDORSER_TRANSACTION", Channel, Spec0,
                                           drawn, c), c, txid)
    BY <1>3 DEF ProposeAs
  <2>2. CASE Record(CreateChaincodeProposalWithTxIDAndTransient("ENDORSER_TRANSACTION", Channel,
                                             Spec0, drawn, c, txid, Secret), c, txid)
    BY <1>1, <2>2, RecordOK DEF Record, CreateChaincodeProposalWithTxIDAndTransient
  <2>3. CASE Record(CreateProposalFromCISAndTxid(txid, "ENDORSER_TRANSACTION", Channel, Spec0,
                                           drawn, c), c, txid)
    BY <1>1, <2>3, RecordOK DEF Record, CreateProposalFromCISAndTxid
  <2> QED
    BY <2>1, <2>2, <2>3
<1>4. CASE ProposeLifecycle(c)
  <2>1. PICK chainID, args :
          Record(CreateProposalFromCIS("ENDORSER_TRANSACTION", chainID, Lscc(args), drawn, c), c, Nil)
    BY <1>1, <1>4 DEF ProposeLifecycle, CreateGetChaincodesProposal,
          CreateGetInstalledChaincodesProposal, CreateInstallProposalFromCDS,
          CreateLifecycleProposal, createProposalFromCDS
  <2> QED
    BY <1>1, <2>1, RecordOK DEF Record
<1> QED
  BY <1>2, <1>3, <1>4

-----------------------------------------------------------------------------
(* Answers.                                                                *)

\* what an endorser signs of a proposal, and what the committer computes of it
Stripped(p) == [kind |-> "ChaincodeProposalPayload", input |-> Cpp(p).input, transientMap |-> Nil]
HashOf(p)   == Hash(<<Hdr(p).channelHeader, Hdr(p).signatureHeader, Stripped(p)>>)

\* An answer has the hash of its proposal, and a result; the status of the result is no
\* failure and the endorser has signed it if the answer is none.
AnswerOK(a) ==
  LET prp == a.response.prp
  IN  /\ a.to \in proposals
      /\ prp = [kind |-> "ProposalResponsePayload", proposalHash |-> HashOf(a.to),
                extension |-> prp.extension]
      /\ prp.extension # Nil /\ prp.extension.kind = "ChaincodeAction"
      /\ a.response.status < 400 =>
           /\ prp.extension.response < 400
           /\ a.response.endorsement = [endorser |-> a.by, signature |-> Sign(a.by, <<prp, a.by>>)]

AnswerInv == \A a \in answers : AnswerOK(a)

LEMMA StrippedIs ==
  ASSUME Atoms, NEW p, ProposalOK(p)
  PROVE  /\ GetBytesProposalPayloadForTx(Cpp(p)) = Stripped(p)
         /\ Cpp(p) # Nil /\ Cpp(p) # Error /\ Hdr(p) # Nil /\ Hdr(p) # Error
         /\ Stripped(p) # Nil /\ Stripped(p) # Error
<1> DEFINE cpp == Cpp(p)
           input == Cpp(p).input
           s == [kind |-> "ChaincodeProposalPayload", input |-> input, transientMap |-> Nil]
<1>1. /\ cpp = [kind |-> "ChaincodeProposalPayload", input |-> input,
                transientMap |-> cpp.transientMap]
      /\ input # Nil
  BY DEF ProposalOK
<1> HIDE DEF cpp, input
<1>2. cpp # Nil /\ cpp # Error /\ [cpp EXCEPT !.transientMap = Nil] = s
  BY <1>1 DEF Atoms, NoRecord
<1>3. s # Zero["ChaincodeProposalPayload"] /\ s.kind = "ChaincodeProposalPayload"
      /\ s # Nil /\ s # Error
  BY <1>1 DEF Zero, Atoms, NoRecord
<1> HIDE DEF s
<1>4. GetBytesProposalPayloadForTx(cpp) = s
  BY <1>2, <1>3, Opaque DEF GetBytesProposalPayloadForTx
<1>5. Hdr(p) # Nil /\ Hdr(p) # Error
  BY DEF ProposalOK, Atoms, NoRecord
<1> QED
  BY <1>2, <1>3, <1>4, <1>5 DEF Stripped, s, cpp, input

\* GetProposalHash1 of an endorser.
LEMMA EndorserHash ==
  ASSUME Atoms, NEW p, ProposalOK(p)
  PROVE  GetProposalHash1(Hdr(p), p.signed.proposalBytes.proposalPayload) = HashOf(p)
BY StrippedIs DEF ProposalOK, GetProposalHash1, HashArguments, HashOf, Cpp

\* GetProposalHash2 of the committer.
LEMMA CommitterHash ==
  ASSUME Atoms, NEW p, ProposalOK(p)
  PROVE  GetProposalHash2(Hdr(p), Stripped(p)) = HashOf(p)
BY StrippedIs DEF ProposalOK, GetProposalHash2, HashArguments, HashOf

\* The hash is that of one proposal: its nonce is in it.
LEMMA HashBinds ==
  ASSUME ProposalInv, NEW p \in proposals, NEW q \in proposals, HashOf(p) = HashOf(q)
  PROVE  p = q
<1>1. Hdr(p).signatureHeader = Hdr(q).signatureHeader
  BY DEF HashOf, Hash
<1>2. Shdr(p) = Shdr(q)
  BY <1>1 DEF Shdr
<1> QED
  BY <1>2 DEF ProposalInv

LEMMA PayloadIs ==
  ASSUME Atoms, NEW p, ProposalOK(p), NEW response \in Int, NEW results, NEW ccid
  PROVE  LET prop == p.signed.proposalBytes
             prp  == ResponsePayload(prop.header, prop.proposalPayload, response, results, ccid)
             act  == [kind |-> "ChaincodeAction", results |-> results, response |-> response,
                      chaincodeId |-> ccid]
         IN  /\ prp = [kind |-> "ProposalResponsePayload", proposalHash |-> HashOf(p),
                       extension |-> act]
             /\ prp # Error /\ act # Nil
<1> DEFINE prop == p.signed.proposalBytes
           act  == [kind |-> "ChaincodeAction", results |-> results, response |-> response,
                    chaincodeId |-> ccid]
           prp  == [kind |-> "ProposalResponsePayload", proposalHash |-> HashOf(p),
                    extension |-> act]
<1>1. act # Nil /\ act # Zero["ChaincodeAction"] /\ act.kind = "ChaincodeAction"
  BY FlowAssumption DEF Zero, Atoms, NoRecord
<1> HIDE DEF act
<1>2. prp # Nil /\ prp # Zero["ProposalResponsePayload"] /\ prp.kind = "ProposalResponsePayload"
      /\ prp # Error
  BY <1>1 DEF Zero, Atoms, NoRecord
<1>3. Marshal(act) = act /\ Marshal(prp) = prp
  <2> HIDE DEF prp
  <2> QED
    BY <1>1, <1>2, Opaque
<1>4. GetBytesProposalResponsePayload(HashOf(p), response, results, ccid) = prp
  BY <1>3 DEF GetBytesProposalResponsePayload, act
<1>5. HashOf(p) # Error
  BY DEF HashOf, Hash, Atoms, NoRecord
<1>6. ResponsePayload(prop.header, prop.proposalPayload, response, results, ccid) = prp
  BY <1>4, <1>5, EndorserHash, StrippedIs DEF ResponsePayload, Hdr
<1> QED
  BY <1>1, <1>2, <1>6 DEF act

LEMMA EndorseOK ==
  ASSUME Atoms, ProposalInv, AnswerInv, NEW e \in Endorsers, NEW p \in proposals, Endorse(e, p)
  PROVE  /\ AnswerInv' /\ answers \subseteq answers'
         /\ UNCHANGED <<drawn, proposals, submitted, chain>>
<1> DEFINE prop == p.signed.proposalBytes
           resp(o) == IF o.status >= 400
                      THEN CreateProposalResponseFailure(prop.header, prop.proposalPayload,
                                          o.status, o.result, Spec0.chaincodeId)
                      ELSE CreateProposalResponse(prop.header, prop.proposalPayload, o.status,
                                             o.result, Spec0.chaincodeId, e)
<1>1. UNCHANGED <<drawn, proposals, submitted, chain>>
  BY DEF Endorse
<1>2. PICK o \in Outcomes : answers' = answers \cup {[by |-> e, to |-> p, response |-> resp(o)]}
  BY DEF Endorse
<1> PICK a : a = [by |-> e, to |-> p, response |-> resp(o)]
  OBVIOUS
<1>3. answers' = answers \cup {a} /\ a.by = e /\ a.to = p /\ a.response = resp(o)
  BY <1>2
<1>4. o.status \in Int
  BY FlowAssumption
<1> DEFINE prp == ResponsePayload(prop.header, prop.proposalPayload, o.status, o.result,
                                  Spec0.chaincodeId)
           act == [kind |-> "ChaincodeAction", results |-> o.result, response |-> o.status,
                   chaincodeId |-> Spec0.chaincodeId]
<1>5. /\ prp = [kind |-> "ProposalResponsePayload", proposalHash |-> HashOf(p), extension |-> act]
      /\ prp # Error /\ act # Nil
  BY <1>4, PayloadIs DEF ProposalInv
<1> HIDE DEF prp, prop
<1>6. CASE o.status >= 400
  <2>1. a.response = [status |-> o.status, prp |-> prp, endorsement |-> Nil]
    BY <1>3, <1>5, <1>6 DEF CreateProposalResponseFailure, prp
  <2>2. AnswerOK(a)
    BY <1>3, <1>4, <1>5, <1>6, <2>1 DEF AnswerOK
  <2> QED
    BY <1>1, <1>3, <2>2 DEF AnswerInv, AnswerOK
<1>7. CASE ~(o.status >= 400)
  <2>1. a.response = [status |-> 200, prp |-> prp,
                      endorsement |-> [endorser |-> e, signature |-> Sign(e, <<prp, e>>)]]
    BY <1>3, <1>5, <1>7 DEF CreateProposalResponse, prp
  <2>2. AnswerOK(a)
    BY <1>3, <1>4, <1>5, <1>7, <2>1 DEF AnswerOK
  <2> QED
    BY <1>1, <1>3, <2>2 DEF AnswerInv, AnswerOK
<1> QED
  BY <1>1, <1>3, <1>6, <1>7

-----------------------------------------------------------------------------
(* Envelopes.                                                              *)

\* what CreateSignedTx makes of s.of and the answers s.with
ActionOf(s) ==
  [kind   |-> "ChaincodeActionPayload",
   chaincodeProposalPayload |-> Stripped(s.of),
   action |-> [prp          |-> s.with[1].response.prp,
               endorsements |-> [k \in DOMAIN s.with |-> s.with[k].response.endorsement]]]
TxOf(s) ==
  [kind    |-> "Transaction",
   actions |-> <<[header |-> Hdr(s.of).signatureHeader, payload |-> ActionOf(s)]>>]
PayloadOf(s) == [kind |-> "Payload", header |-> Hdr(s.of), data |-> TxOf(s)]
EnvelopeOf(s) ==
  [kind |-> "Envelope", payload |-> PayloadOf(s),
   signature |-> Sign(Shdr(s.of).creator, PayloadOf(s))]

\* A transaction has one or more answers, which agree and are no failures, and is signed
\* by who made the proposal.
TxOK(s) ==
  /\ s.of \in proposals
  /\ 1 \in DOMAIN s.with
  /\ \A k \in DOMAIN s.with :
       /\ s.with[k] \in answers
       /\ s.with[k].response.status \in 200..399
       /\ s.with[k].response.prp = s.with[1].response.prp
  /\ s.entry = EnvelopeOf(s)

SignedConfig(txType, signer, nonce, signers) ==
  Marshal(CreateSignedEnvelope(txType, Channel, signer, nonce, ConfigUpdate(signers)))

ConfigOK(s) ==
  \/ \E c \in Clients, nonce \in 0..MaxProposals :
       s.entry = SignedConfig("CONFIG_UPDATE", c, nonce, <<c>>)
  \/ s.entry = SignedConfig("CONFIG", Nil, Nil, <<>>)

EntryOK(s) == TxOK(s) \/ (s.of = Nil /\ (ConfigOK(s) \/ s.entry \in Junk))

IsSequence(s) == s \in Seq({s[n] : n \in DOMAIN s})

SubmittedInv == IsSequence(submitted) /\ \A n \in DOMAIN submitted : EntryOK(submitted[n])

\* A sequence that grows.
LEMMA SeqAppend ==
  ASSUME NEW s, IsSequence(s), NEW e
  PROVE  /\ IsSequence(Append(s, e))
         /\ DOMAIN s = 1..Len(s) /\ Len(s) \in Nat
         /\ DOMAIN Append(s, e) = 1..Len(s)+1 /\ Len(Append(s, e)) = Len(s) + 1
         /\ \A n \in 1..Len(s) : Append(s, e)[n] = s[n]
         /\ Append(s, e)[Len(s) + 1] = e
<1> DEFINE S == {s[n] : n \in DOMAIN s} \cup {e}
           t == Append(s, e)
<1>1. s \in Seq(S) /\ e \in S
  BY DEF IsSequence
<1> HIDE DEF S
<1>2. /\ t \in Seq(S) /\ Len(t) = Len(s) + 1 /\ t[Len(s) + 1] = e
      /\ \A n \in 1..Len(s) : t[n] = s[n]
  BY <1>1, AppendProperties
<1>3. /\ DOMAIN s = 1..Len(s) /\ Len(s) \in Nat
      /\ DOMAIN t = 1..Len(t) /\ Len(t) \in Nat /\ t \in [1..Len(t) -> S]
  BY <1>1, <1>2, LenProperties
<1> HIDE DEF t
<1>4. t \in Seq({t[n] : n \in DOMAIN t})
  <2>1. t \in [1..Len(t) -> {t[n] : n \in DOMAIN t}]
    BY <1>3
  <2> QED
    BY <1>3, <2>1, SeqDef
<1> QED
  BY <1>2, <1>3, <1>4 DEF IsSequence, t

\* What CreateSignedTx lets through.
LEMMA AssembleOK ==
  ASSUME Atoms, ProposalInv, NEW c \in Clients, NEW p \in proposals,
         NEW with \in SeqOf(answers, MaxResponses), NEW env, env # Error,
         env = CreateSignedTx(p.signed.proposalBytes, c, [n \in DOMAIN with |-> with[n].response])
  PROVE  TxOK([entry |-> Marshal(env), of |-> p, with |-> with])
<1> DEFINE resps == [n \in DOMAIN with |-> with[n].response]
           s == [entry |-> Marshal(env), of |-> p, with |-> with]
<1>1. ProposalOK(p)
  BY DEF ProposalInv
<1>2. /\ Shdr(p).creator = c /\ ResponsesAgree(resps)
      /\ env = SignedEnvelope([kind |-> "Payload", header |-> Hdr(p),
                               data |-> Marshal(EndorsedTransaction(Hdr(p), Cpp(p), resps))], c)
  <2> HIDE DEF resps
  <2> QED
    BY DEF CreateSignedTx, Hdr, Cpp, Shdr, resps
<1>3. PICK m \in 0..MaxResponses : with \in [1..m -> answers]
  BY DEF SeqOf
<1>4. m \in Nat /\ DOMAIN with = 1..m
  BY <1>3, FlowAssumption
<1>5. m # 0
  <2>1. m = 0 => resps = <<>>
    BY <1>4
  <2> QED
    BY <1>2, <2>1 DEF ResponsesAgree
<1>6. 1 \in DOMAIN with /\ \A k \in DOMAIN with :
        /\ with[k] \in answers
        /\ with[k].response.status \in 200..399
        /\ with[k].response.prp = with[1].response.prp
  <2>1. 1 \in DOMAIN with /\ \A k \in DOMAIN with : with[k] \in answers
    BY <1>3, <1>4, <1>5
  <2>2. \A k \in DOMAIN resps : resps[k].status \in 200..399 /\ resps[k].prp = resps[1].prp
    BY <1>2 DEF ResponsesAgree
  <2>3. DOMAIN resps = DOMAIN with /\ \A k \in DOMAIN with : resps[k] = with[k].response
    OBVIOUS
  <2> HIDE DEF resps
  <2> QED
    BY <2>1, <2>2, <2>3
<1>7. s.entry = Marshal(env) /\ s.of = p /\ s.with = with
  OBVIOUS
<1> HIDE DEF s
<1>8. Marshal([kind   |-> "ChaincodeActionPayload",
               chaincodeProposalPayload |-> GetBytesProposalPayloadForTx(Cpp(p)),
               action |-> [prp          |-> resps[1].prp,
                           endorsements |-> [n \in DOMAIN resps |-> resps[n].endorsement]]])
        = ActionOf(s)
  <2>1. ActionOf(s).kind = "ChaincodeActionPayload" /\ ActionOf(s).chaincodeProposalPayload # Nil
    BY <1>1, <1>7, StrippedIs DEF ActionOf
  <2>2. ActionOf(s) # Zero["ChaincodeActionPayload"]
    <3>1. Zero["ChaincodeActionPayload"].chaincodeProposalPayload = Nil
      BY DEF Zero
    <3> QED
      BY <2>1, <3>1
  <2>3. Marshal(ActionOf(s)) = ActionOf(s)
    BY <2>1, <2>2, Opaque
  <2>4. resps[1].prp = s.with[1].response.prp
    BY <1>6, <1>7
  <2>5. [n \in DOMAIN resps |-> resps[n].endorsement]
          = [k \in DOMAIN s.with |-> s.with[k].response.endorsement]
    BY <1>7
  <2> QED
    BY <1>1, <1>7, <2>3, <2>4, <2>5, StrippedIs DEF ActionOf
<1>9. EndorsedTransaction(Hdr(p), Cpp(p), resps) = TxOf(s)
  BY <1>7, <1>8 DEF EndorsedTransaction, TxOf
<1>10. Marshal(TxOf(s)) = TxOf(s)
  <2>1. TxOf(s).kind = "Transaction" /\ TxOf(s).actions # <<>>
    BY DEF TxOf
  <2>2. Zero["Transaction"].actions = <<>>
    BY DEF Zero
  <2> QED
    BY <2>1, <2>2, Opaque
<1>11. Marshal(PayloadOf(s)) = PayloadOf(s) /\ PayloadOf(s) # Nil
  <2>1. PayloadOf(s).kind = "Payload" /\ PayloadOf(s).header # Nil /\ PayloadOf(s) # Nil
    BY <1>1, <1>7, StrippedIs DEF PayloadOf, Atoms, NoRecord
  <2>2. Zero["Payload"].header = Nil
    BY DEF Zero
  <2> QED
    BY <2>1, <2>2, Opaque
<1>12. env = EnvelopeOf(s)
  <2>1. c # Nil
    BY FlowAssumption
  <2> QED
    BY <1>2, <1>7, <1>9, <1>10, <1>11, <2>1 DEF SignedEnvelope, EnvelopeOf, PayloadOf
<1>13. Marshal(env) = EnvelopeOf(s)
  <2>1. env.kind = "Envelope" /\ env.payload # Nil
    BY <1>11, <1>12 DEF EnvelopeOf
  <2>2. Zero["Envelope"].payload = Nil
    BY DEF Zero
  <2> QED
    BY <1>12, <2>1, <2>2, Opaque
<1> QED
  BY <1>6, <1>7, <1>13 DEF TxOK, s

\* What an envelope around the header of a proposal is read as.
LEMMA HeaderReads ==
  ASSUME Atoms, NEW p, ProposalOK(p), NEW env, env # Nil, env # Error, env.kind = "Envelope",
         env.payload # Nil, env.payload.kind = "Payload", env.payload # Error,
         env.payload.header = Hdr(p)
  PROVE  /\ Unmarshal("Envelope", env) = env /\ Unmarshal("Payload", env.payload) = env.payload
         /\ HeaderOfEnvelope(env) = Chdr(p) /\ Chdr(p) # Error
         /\ Unmarshal("SignatureHeader", env.payload.header.signatureHeader) = Shdr(p)
         /\ Shdr(p) # Error
         /\ GetOrComputeTxIDFromEnvelope(env) =
              IF p.txid # Nil THEN p.txid ELSE ComputeTxID(Shdr(p).nonce, Shdr(p).creator)
<1>1. Unmarshal("Envelope", env) = env /\ Unmarshal("Payload", env.payload) = env.payload
  BY OfItself
<1>2. HeaderOfEnvelope(env) = Chdr(p) /\ Chdr(p) # Error
  BY <1>1, StrippedIs DEF HeaderOfEnvelope, HeaderOfPayload, Chdr, ProposalOK
<1>3. Unmarshal("SignatureHeader", env.payload.header.signatureHeader) = Shdr(p)
  BY DEF Shdr
<1>4. Shdr(p) # Error
  BY DEF ProposalOK, Atoms, NoRecord
<1>5. GetOrComputeTxIDFromEnvelope(env) =
        IF Chdr(p).txId # Nil THEN Chdr(p).txId ELSE ComputeTxID(Shdr(p).nonce, Shdr(p).creator)
  BY <1>1, <1>2, <1>3, <1>4 DEF GetOrComputeTxIDFromEnvelope
<1>6. Chdr(p).txId \in IF p.txid # Nil THEN {p.txid}
                       ELSE {Nil, ComputeTxID(Shdr(p).nonce, Shdr(p).creator)}
  BY DEF ProposalOK
<1> QED
  BY <1>1, <1>2, <1>3, <1>4, <1>5, <1>6

\* The parts of a transaction are what it was made of.
LEMMA TxReads ==
  ASSUME Atoms, ProposalInv, AnswerInv, NEW n, TxOK(submitted[n])
  PROVE  LET s == submitted[n]
         IN  /\ Envelope(n) = EnvelopeOf(s) /\ Payload(n) = PayloadOf(s)
             /\ SigHeader(n) = Shdr(s.of)
             /\ HeaderOfEnvelope(Envelope(n)) = Chdr(s.of)
             /\ ActionPayload(n) = ActionOf(s)
             /\ GetActionFromEnvelopeMsg(Envelope(n)) = s.with[1].response.prp.extension
             /\ GetOrComputeTxIDFromEnvelope(s.entry) =
                  IF s.of.txid # Nil THEN s.of.txid
                                     ELSE ComputeTxID(Shdr(s.of).nonce, Shdr(s.of).creator)
<1> DEFINE s == submitted[n]
           prp == s.with[1].response.prp
<1>1. /\ s.entry = EnvelopeOf(s) /\ ProposalOK(s.of) /\ AnswerOK(s.with[1])
  BY DEF TxOK, ProposalInv, AnswerInv
<1> HIDE DEF s
<1>2. /\ EnvelopeOf(s).kind = "Envelope" /\ EnvelopeOf(s).payload = PayloadOf(s)
      /\ EnvelopeOf(s) # Nil /\ EnvelopeOf(s) # Error
  BY DEF EnvelopeOf, Atoms, NoRecord
<1>3. /\ PayloadOf(s).kind = "Payload" /\ PayloadOf(s).header = Hdr(s.of)
      /\ PayloadOf(s).data = TxOf(s) /\ PayloadOf(s) # Nil /\ PayloadOf(s) # Error
  BY DEF PayloadOf, Atoms, NoRecord
<1>4. /\ Unmarshal("Envelope", EnvelopeOf(s)) = EnvelopeOf(s)
      /\ Unmarshal("Payload", PayloadOf(s)) = PayloadOf(s)
      /\ HeaderOfEnvelope(EnvelopeOf(s)) = Chdr(s.of)
      /\ Unmarshal("SignatureHeader", PayloadOf(s).header.signatureHeader) = Shdr(s.of)
      /\ GetOrComputeTxIDFromEnvelope(EnvelopeOf(s)) =
           IF s.of.txid # Nil THEN s.of.txid
                              ELSE ComputeTxID(Shdr(s.of).nonce, Shdr(s.of).creator)
  BY <1>1, <1>2, <1>3, HeaderReads
<1>5. /\ TxOf(s).kind = "Transaction" /\ TxOf(s).actions # <<>>
      /\ TxOf(s).actions[1].payload = ActionOf(s) /\ TxOf(s) # Nil /\ TxOf(s) # Error
  BY DEF TxOf, Atoms, NoRecord
<1>6. /\ ActionOf(s).kind = "ChaincodeActionPayload" /\ ActionOf(s).action.prp = prp
      /\ ActionOf(s).action # Nil /\ ActionOf(s) # Nil /\ ActionOf(s) # Error
  BY DEF ActionOf, Atoms, NoRecord
<1>7. /\ prp.kind = "ProposalResponsePayload" /\ prp # Nil /\ prp # Error
      /\ prp.extension # Nil /\ prp.extension.kind = "ChaincodeAction"
  BY <1>1 DEF AnswerOK, Atoms, NoRecord
<1> HIDE DEF prp
<1>8. GetPayloads(TxOf(s).actions[1]) = [ccPayload |-> ActionOf(s), respPayload |-> prp.extension]
  BY <1>5, <1>6, <1>7, OfItself DEF GetPayloads
<1>9. Unmarshal("Transaction", TxOf(s)) = TxOf(s)
  BY <1>5, OfItself
<1>10. Envelope(n) = EnvelopeOf(s)
  BY <1>1, <1>4 DEF Envelope, s
<1>11. Payload(n) = PayloadOf(s)
  BY <1>2, <1>4, <1>10 DEF Payload
<1>12. SigHeader(n) = Shdr(s.of)
  BY <1>4, <1>11 DEF SigHeader
<1>13. ActionPayload(n) = ActionOf(s)
  BY <1>3, <1>8, <1>9, <1>11 DEF ActionPayload
<1>14. GetActionFromEnvelopeMsg(EnvelopeOf(s)) = prp.extension
  <2>1. GetPayloads(TxOf(s).actions[1]) # Error
    BY <1>8 DEF Atoms, NoRecord
  <2> QED
    BY <1>2, <1>3, <1>4, <1>5, <1>8, <1>9, <2>1 DEF GetActionFromEnvelopeMsg
<1> QED
  BY <1>1, <1>4, <1>10, <1>11, <1>12, <1>13, <1>14 DEF s, prp

\* What is proposed, answered and sent can be read as what it was made from.
FlowInv == ProposalInv /\ AnswerInv /\ SubmittedInv

LEMMA TransactionsOK ==
  ASSUME Atoms, FlowInv, NEW n \in Transactions
  PROVE  n \in DOMAIN submitted /\ TxOK(submitted[n])
BY DEF FlowInv, SubmittedInv, EntryOK, Transactions

LEMMA HashProperty ==
  ASSUME Atoms, FlowInv
  PROVE  HashBindsResponses
<1> SUFFICES ASSUME NEW n \in Transactions
             PROVE  GetProposalHash2(Payload(n).header, ActionPayload(n).chaincodeProposalPayload) =
                      Unmarshal("ProposalResponsePayload", ActionPayload(n).action.prp).proposalHash
                    <=> \A k \in DOMAIN submitted[n].with : submitted[n].with[k].to = submitted[n].of
  BY DEF HashBindsResponses
<1> DEFINE s == submitted[n]
           prp == s.with[1].response.prp
<1>1. TxOK(s)
  BY TransactionsOK
<1>2. /\ s.of \in proposals /\ 1 \in DOMAIN s.with
      /\ \A k \in DOMAIN s.with : s.with[k] \in answers /\ s.with[k].response.prp = prp
  BY <1>1 DEF TxOK
<1>3. Payload(n) = PayloadOf(s) /\ ActionPayload(n) = ActionOf(s)
  BY <1>1, TxReads DEF FlowInv
<1> HIDE DEF s
<1>4. /\ Payload(n).header = Hdr(s.of) /\ ActionPayload(n).action.prp = prp
      /\ ActionPayload(n).chaincodeProposalPayload = Stripped(s.of)
  BY <1>3 DEF PayloadOf, ActionOf
<1>5. GetProposalHash2(Payload(n).header, ActionPayload(n).chaincodeProposalPayload) = HashOf(s.of)
  BY <1>2, <1>4, CommitterHash DEF FlowInv, ProposalInv
<1>6. \A k \in DOMAIN s.with : s.with[k].to \in proposals /\ prp.proposalHash = HashOf(s.with[k].to)
  <2> SUFFICES ASSUME NEW k \in DOMAIN s.with
               PROVE  s.with[k].to \in proposals /\ prp.proposalHash = HashOf(s.with[k].to)
    OBVIOUS
  <2>1. AnswerOK(s.with[k]) /\ s.with[k].response.prp = prp
    BY <1>2 DEF FlowInv, AnswerInv
  <2> HIDE DEF prp
  <2> QED
    BY <2>1 DEF AnswerOK
<1>7. Unmarshal("ProposalResponsePayload", prp) = prp
  <2>1. AnswerOK(s.with[1])
    BY <1>2 DEF FlowInv, AnswerInv
  <2>2. prp # Nil /\ prp.kind = "ProposalResponsePayload"
    BY <2>1 DEF AnswerOK, Atoms, NoRecord
  <2> QED
    BY <2>2, OfItself
<1> HIDE DEF prp
<1>8. \A k \in DOMAIN s.with : HashOf(s.of) = prp.proposalHash => s.with[k].to = s.of
  BY <1>2, <1>6, HashBinds DEF FlowInv
<1>9. (\A k \in DOMAIN s.with : s.with[k].to = s.of) => HashOf(s.of) = prp.proposalHash
  BY <1>2, <1>6
<1> QED
  BY <1>4, <1>5, <1>7, <1>8, <1>9 DEF s

LEMMA EndorsementProperty ==
  ASSUME Atoms, FlowInv
  PROVE  EndorsementsVerify
<1> SUFFICES ASSUME NEW n \in Transactions
             PROVE  EndorsementsVerify!(n)
  BY DEF EndorsementsVerify
<1> DEFINE s == submitted[n]
           prp == s.with[1].response.prp
<1>1. TxOK(s)
  BY TransactionsOK
<1>2. /\ 1 \in DOMAIN s.with
      /\ \A k \in DOMAIN s.with :
           AnswerOK(s.with[k]) /\ s.with[k].response.prp = prp /\ s.with[k].response.status \in 200..399
  BY <1>1 DEF TxOK, FlowInv, AnswerInv
<1>3. /\ ActionPayload(n) = ActionOf(s)
      /\ GetActionFromEnvelopeMsg(Envelope(n)) = prp.extension
  BY <1>1, TxReads DEF FlowInv
<1> HIDE DEF s
<1> DEFINE action == ActionPayload(n).action
<1>4. /\ action.prp = prp /\ DOMAIN action.endorsements = DOMAIN s.with
      /\ \A k \in DOMAIN s.with : action.endorsements[k] = s.with[k].response.endorsement
  BY <1>3 DEF ActionOf
<1>5. ASSUME NEW k \in DOMAIN s.with
      PROVE  /\ prp.extension.response < 400
             /\ s.with[k].response.endorsement =
                  [endorser |-> s.with[k].by, signature |-> Sign(s.with[k].by, <<prp, s.with[k].by>>)]
  <2>1. s.with[k].response.status < 400
    <3> DEFINE status == s.with[k].response.status
    <3>1. status \in 200..399
      BY <1>2, Zenon
    <3> HIDE DEF status
    <3>2. status < 400
      BY <3>1
    <3> QED
      BY <3>2 DEF status
  <2> QED
    BY <1>2, <2>1 DEF AnswerOK
<1> HIDE DEF prp, action
<1>6. ASSUME NEW k \in DOMAIN s.with
      PROVE  /\ action.endorsements[k] # Nil
             /\ action.endorsements[k].signature =
                  Sign(action.endorsements[k].endorser, <<action.prp, action.endorsements[k].endorser>>)
  <2> DEFINE e == action.endorsements[k]
  <2>1. e = [endorser |-> s.with[k].by, signature |-> Sign(s.with[k].by, <<prp, s.with[k].by>>)]
    BY <1>4, <1>5
  <2> HIDE DEF e
  <2>2. /\ e # Nil /\ e.endorser = s.with[k].by
        /\ e.signature = Sign(s.with[k].by, <<prp, s.with[k].by>>)
    BY <2>1 DEF Atoms, NoRecord
  <2> QED
    BY <1>4, <2>2 DEF e
<1> QED
  BY <1>2, <1>3, <1>4, <1>5, <1>6 DEF action

LEMMA TransientProperty ==
  ASSUME Atoms, FlowInv
  PROVE  TransientStaysPrivate
<1> SUFFICES ASSUME NEW n \in Transactions
             PROVE  TransientStaysPrivate!(n)
  BY DEF TransientStaysPrivate
<1> DEFINE s == submitted[n]
<1>1. TxOK(s) /\ ProposalOK(s.of)
  BY TransactionsOK DEF TxOK, FlowInv, ProposalInv
<1>2. ActionPayload(n) = ActionOf(s)
  BY <1>1, TxReads DEF FlowInv
<1>3. ActionPayload(n).chaincodeProposalPayload = Stripped(s.of)
  BY <1>2 DEF ActionOf
<1>4. /\ Stripped(s.of) # Nil /\ Stripped(s.of).kind = "ChaincodeProposalPayload"
      /\ Stripped(s.of).transientMap = Nil /\ Stripped(s.of).input # Nil
  BY <1>1, StrippedIs DEF Stripped, ProposalOK
<1> QED
  BY <1>3, <1>4, OfItself

LEMMA TxIDProperty ==
  ASSUME Atoms, FlowInv
  PROVE  TxIDBinds
<1> DEFINE Id(p) == IF p.txid # Nil THEN p.txid
                                    ELSE ComputeTxID(Shdr(p).nonce, Shdr(p).creator)
           Env(p) == SignedEnvelope([kind   |-> "Payload", data |-> Nil,
                                     header |-> Unmarshal("Header", p.signed.proposalBytes.header)], Nil)
<1>1. ASSUME NEW p \in proposals
      PROVE  GetOrComputeTxIDFromEnvelope(Marshal(Env(p))) = Id(p)
  <2> DEFINE pl == [kind |-> "Payload", data |-> Nil, header |-> Hdr(p)]
             env == Env(p)
  <2>1. ProposalOK(p)
    BY DEF FlowInv, ProposalInv
  <2>2. pl # Nil /\ pl # Error /\ pl # Zero["Payload"] /\ pl.kind = "Payload" /\ pl.header = Hdr(p)
    <3>1. Zero["Payload"].header = Nil
      BY DEF Zero
    <3> QED
      BY <2>1, <3>1, StrippedIs DEF Atoms, NoRecord
  <2> HIDE DEF pl
  <2>3. Marshal(pl) = pl
    BY <2>2, Opaque
  <2>4. env = [kind |-> "Envelope", payload |-> pl, signature |-> Nil]
    BY <2>3 DEF SignedEnvelope, Hdr, pl
  <2> HIDE DEF env
  <2>5. /\ env # Nil /\ env # Error /\ env # Zero["Envelope"]
        /\ env.kind = "Envelope" /\ env.payload = pl
    <3>1. Zero["Envelope"].payload = Nil
      BY DEF Zero
    <3> QED
      BY <2>2, <2>4, <3>1 DEF Atoms, NoRecord
  <2>6. Marshal(env) = env
    BY <2>5, Opaque
  <2>7. GetOrComputeTxIDFromEnvelope(env) = Id(p)
    BY <2>1, <2>2, <2>5, HeaderReads
  <2> QED
    BY <2>6, <2>7 DEF env
<1> SUFFICES ASSUME NEW n \in Transactions
             PROVE  LET p  == submitted[n].of
                        id == GetOrComputeTxIDFromEnvelope(submitted[n].entry)
                    IN  /\ id = IF p.txid # Nil THEN p.txid
                                ELSE ComputeTxID(SigHeader(n).nonce, SigHeader(n).creator)
                        /\ \A q \in proposals :
                             p.txid = Nil /\ GetOrComputeTxIDFromEnvelope(Marshal(Env(q))) = id => q = p
  BY DEF TxIDBinds
<1> HIDE DEF Env
<1> DEFINE p == submitted[n].of
<1>2. TxOK(submitted[n]) /\ p \in proposals /\ ProposalOK(p)
  BY TransactionsOK DEF TxOK, FlowInv, ProposalInv
<1>3. /\ SigHeader(n) = Shdr(p)
      /\ GetOrComputeTxIDFromEnvelope(submitted[n].entry) = Id(p)
  BY <1>2, TxReads DEF FlowInv
<1> HIDE DEF p
<1>4. ASSUME NEW q \in proposals, p.txid = Nil, Id(q) = Id(p) PROVE q = p
  <2>1. ProposalOK(q)
    BY DEF FlowInv, ProposalInv
  <2>2. /\ Shdr(p).nonce \in 0..MaxProposals /\ Shdr(p).creator \in Clients
        /\ q.txid \in Given \cup {Nil}
    BY <1>2, <2>1, FlowAssumption DEF ProposalOK, FlowInv, ProposalInv
  <2>3. q.txid = Nil
    BY <1>4, <2>2, FlowAssumption
  <2>4. ComputeTxID(Shdr(q).nonce, Shdr(q).creator) = ComputeTxID(Shdr(p).nonce, Shdr(p).creator)
    BY <1>4, <2>3
  <2>5. Shdr(q).nonce = Shdr(p).nonce
    BY <2>4 DEF ComputeTxID, Hash
  <2> QED
    BY <1>2, <2>5 DEF FlowInv, ProposalInv
<1> HIDE DEF Id
<1> QED
  BY <1>1, <1>3, <1>4 DEF p, Id

-----------------------------------------------------------------------------
(* Configurations.                                                         *)

\* The parts of a configuration, and who has to have signed it.
LEMMA ConfigReads ==
  ASSUME Atoms, NEW txType, txType # "MESSAGE", NEW signer \in Clients \cup {Nil}, NEW nonce,
         NEW signers
  PROVE  LET env == Unmarshal("Envelope", SignedConfig(txType, signer, nonce, signers))
         IN  /\ env # Error /\ env.payload # Nil /\ env.payload # Error
             /\ env.payload.kind = "Payload" /\ env.payload.header # Nil
             /\ env.payload.header.channelHeader # Nil
             /\ HeaderOfEnvelope(env) # Error
             /\ HeaderOfEnvelope(env).type = txType /\ HeaderOfEnvelope(env).channelId = Channel
             /\ Unmarshal("ConfigUpdateEnvelope", env.payload.data) = ConfigUpdate(signers)
             /\ Unmarshal("SignatureHeader", env.payload.header.signatureHeader) # Error
             /\ Unmarshal("SignatureHeader", env.payload.header.signatureHeader).creator = signer
             /\ signer # Nil => env.signature = Sign(signer, env.payload)
<1> DEFINE ch == [MakeChannelHeader(txType, Channel) EXCEPT !.tlsCertHash = Nil]
           sh == IF signer = Nil THEN Zero.SignatureHeader ELSE MakeSignatureHeader(signer, nonce)
           hdr == [kind |-> "Header", channelHeader |-> Marshal(ch), signatureHeader |-> Marshal(sh)]
           update == ConfigUpdate(signers)
           pl == [kind |-> "Payload", header |-> hdr, data |-> Marshal(update)]
           env == SignedEnvelope(pl, signer)
<1>1. SignedConfig(txType, signer, nonce, signers) = Marshal(env)
  BY DEF SignedConfig, CreateSignedEnvelope, CreateSignedEnvelopeWithTLSBinding, MakePayloadHeader
<1>2. /\ ch # Nil /\ ch # Error /\ ch # Zero["ChannelHeader"] /\ ch.kind = "ChannelHeader"
      /\ ch.type = txType /\ ch.channelId = Channel
  <2>1. ch = [kind |-> "ChannelHeader", type |-> txType, channelId |-> Channel,
              txId |-> Nil, extension |-> Nil, tlsCertHash |-> Nil]
    BY DEF MakeChannelHeader
  <2>2. Zero["ChannelHeader"].type = "MESSAGE"
    BY DEF MakeChannelHeader, Zero
  <2> HIDE DEF ch
  <2> QED
    BY <2>1, <2>2 DEF Atoms, NoRecord
<1>3. sh.kind = "SignatureHeader" /\ sh.creator = signer /\ sh # Nil /\ sh # Error
  BY DEF MakeSignatureHeader, Zero, Atoms, NoRecord
<1>4. update.kind = "ConfigUpdateEnvelope" /\ update # Nil /\ update # Error
  BY DEF ConfigUpdate, Atoms, NoRecord
<1> HIDE DEF ch, sh, update
<1>5. Marshal(ch) = ch /\ Unmarshal("ChannelHeader", ch) = ch
  BY <1>2, Opaque, OfItself
<1>6. Unmarshal("SignatureHeader", Marshal(sh)) = sh
  BY <1>3, Readable
<1>7. Unmarshal("ConfigUpdateEnvelope", Marshal(update)) = update
  BY <1>4, Readable
<1>8. hdr # Nil /\ hdr.channelHeader = ch /\ hdr.signatureHeader = Marshal(sh)
  BY <1>5 DEF Atoms, NoRecord
<1> HIDE DEF hdr
<1>9. /\ pl.kind = "Payload" /\ pl.header = hdr /\ pl.data = Marshal(update)
      /\ pl # Nil /\ pl # Error /\ pl # Zero["Payload"]
  <2>1. Zero["Payload"].header = Nil
    BY DEF Zero
  <2> QED
    BY <1>8, <2>1 DEF Atoms, NoRecord
<1> HIDE DEF pl
<1>10. Marshal(pl) = pl /\ Unmarshal("Payload", pl) = pl
  BY <1>9, Opaque, OfItself
<1>11. /\ env.kind = "Envelope" /\ env.payload = pl /\ env # Nil /\ env # Error
       /\ signer # Nil => env.signature = Sign(signer, pl)
  BY <1>10 DEF SignedEnvelope, Atoms, NoRecord
<1> HIDE DEF env
<1>12. Unmarshal("Envelope", Marshal(env)) = env
  BY <1>11, Readable
<1>13. HeaderOfEnvelope(env) = ch
  BY <1>2, <1>5, <1>8, <1>9, <1>10, <1>11 DEF HeaderOfEnvelope, HeaderOfPayload
<1> QED
  BY <1>1, <1>2, <1>3, <1>6, <1>7, <1>8, <1>9, <1>11, <1>12, <1>13 DEF update

\* Each signature of a configuration update.
LEMMA UpdateReads ==
  ASSUME Atoms, NEW c \in Clients, NEW k \in DOMAIN ConfigUpdate(<<c>>).signatures
  PROVE  LET sd == ConfigUpdateEnvelopeAsSignedData(ConfigUpdate(<<c>>))[k]
         IN  sd.signature = Sign(sd.identity, sd.data)
<1> DEFINE header == Marshal(MakeSignatureHeader(c, Nil))
           sig == [signatureHeader |-> header, signature |-> Sign(c, <<header, Channel>>)]
           u == ConfigUpdate(<<c>>)
<1>1. /\ u.configUpdate = Channel /\ u # Nil /\ DOMAIN u.signatures = 1..1
      /\ \A n \in 1..1 : u.signatures[n] = sig
  BY DEF ConfigUpdate, Atoms, NoRecord
<1>2. /\ Unmarshal("SignatureHeader", header) = MakeSignatureHeader(c, Nil)
      /\ MakeSignatureHeader(c, Nil) # Error
  <2>1. /\ MakeSignatureHeader(c, Nil) # Nil /\ MakeSignatureHeader(c, Nil) # Error
        /\ MakeSignatureHeader(c, Nil).kind = "SignatureHeader"
    BY DEF MakeSignatureHeader, Atoms, NoRecord
  <2> QED
    BY <2>1, Readable
<1>3. MakeSignatureHeader(c, Nil).creator = c
  BY DEF MakeSignatureHeader
<1> HIDE DEF u, header
<1>4. sig.signatureHeader = header /\ sig.signature = Sign(c, <<header, Channel>>)
  OBVIOUS
<1> HIDE DEF sig
<1>5. ConfigUpdateEnvelopeAsSignedData(u) =
        [n \in 1..1 |-> [data |-> <<header, Channel>>, identity |-> c,
                         signature |-> Sign(c, <<header, Channel>>)]]
  BY <1>1, <1>2, <1>3, <1>4 DEF ConfigUpdateEnvelopeAsSignedData
<1> QED
  BY <1>1, <1>5 DEF u

LEMMA EnvelopesProperty ==
  ASSUME Atoms, FlowInv
  PROVE  EnvelopesVerify
<1> DEFINE Verifies(sd) == sd.identity # Nil => sd.signature = Sign(sd.identity, sd.data)
<1> SUFFICES ASSUME NEW n \in DOMAIN submitted, submitted[n].entry \notin Junk
             PROVE  LET update == EnvelopeToConfigUpdate(Envelope(n))
                    IN  /\ Verifies(EnvelopeAsSignedData(Envelope(n))[1])
                        /\ update # Error =>
                             \A k \in DOMAIN update.signatures :
                               Verifies(ConfigUpdateEnvelopeAsSignedData(update)[k])
  BY DEF EnvelopesVerify
<1> DEFINE s == submitted[n]
           env == Envelope(n)
<1>1. TxOK(s) \/ ConfigOK(s)
  BY DEF FlowInv, SubmittedInv, EntryOK
<1>2. CASE TxOK(s)
  <2>1. ProposalOK(s.of)
    BY <1>2 DEF TxOK, FlowInv, ProposalInv
  <2>2. env = EnvelopeOf(s) /\ HeaderOfEnvelope(env) = Chdr(s.of)
    BY <1>2, TxReads DEF FlowInv
  <2> HIDE DEF s, env
  <2>3. EnvelopeToConfigUpdate(env) = Error
    BY <2>1, <2>2 DEF EnvelopeToConfigUpdate, UnmarshalEnvelopeOfType, ProposalOK
  <2>4. /\ env.payload = PayloadOf(s) /\ env.signature = Sign(Shdr(s.of).creator, PayloadOf(s))
        /\ PayloadOf(s).kind = "Payload" /\ PayloadOf(s).header = Hdr(s.of)
        /\ PayloadOf(s) # Nil /\ PayloadOf(s) # Error
    BY <2>2 DEF EnvelopeOf, PayloadOf, Atoms, NoRecord
  <2>5. Unmarshal("SignatureHeader", Hdr(s.of).signatureHeader) = Shdr(s.of) /\ Shdr(s.of) # Error
        /\ Hdr(s.of) # Nil
    BY <2>1, StrippedIs DEF Shdr, ProposalOK, Atoms, NoRecord
  <2>6. EnvelopeAsSignedData(env) =
          <<[data |-> PayloadOf(s), identity |-> Shdr(s.of).creator, signature |-> env.signature]>>
    BY <2>4, <2>5, OfItself DEF EnvelopeAsSignedData
  <2> QED
    BY <2>3, <2>4, <2>6 DEF env
<1>3. CASE ConfigOK(s)
  <2>1. PICK txType, signer, nonce, signers :
          /\ txType \in {"CONFIG", "CONFIG_UPDATE"} /\ signer \in Clients \cup {Nil}
          /\ s.entry = SignedConfig(txType, signer, nonce, signers)
          /\ txType = "CONFIG_UPDATE" => \E c \in Clients : signers = <<c>>
    <3>1. CASE \E c \in Clients, nonce \in 0..MaxProposals :
                 s.entry = SignedConfig("CONFIG_UPDATE", c, nonce, <<c>>)
      <4>1. PICK c \in Clients, nonce \in 0..MaxProposals :
              s.entry = SignedConfig("CONFIG_UPDATE", c, nonce, <<c>>)
        BY <3>1
      <4> QED
        BY <4>1, Zenon
    <3>2. CASE s.entry = SignedConfig("CONFIG", Nil, Nil, <<>>)
      <4>1. "CONFIG" # "CONFIG_UPDATE"
        OBVIOUS
      <4> QED
        BY <3>2, <4>1, Zenon
    <3> QED
      BY <1>3, <3>1, <3>2 DEF ConfigOK
  <2>2. /\ env # Error /\ env.payload # Nil /\ env.payload # Error
        /\ env.payload.kind = "Payload" /\ env.payload.header # Nil
        /\ HeaderOfEnvelope(env) # Error /\ HeaderOfEnvelope(env).type = txType
        /\ Unmarshal("ConfigUpdateEnvelope", env.payload.data) = ConfigUpdate(signers)
        /\ Unmarshal("SignatureHeader", env.payload.header.signatureHeader) # Error
        /\ Unmarshal("SignatureHeader", env.payload.header.signatureHeader).creator = signer
        /\ signer # Nil => env.signature = Sign(signer, env.payload)
    BY <2>1, ConfigReads DEF Envelope
  <2> HIDE DEF env
  <2>3. EnvelopeAsSignedData(env) =
          <<[data |-> env.payload, identity |-> signer, signature |-> env.signature]>>
    BY <2>2, OfItself DEF EnvelopeAsSignedData
  <2>4. Verifies(EnvelopeAsSignedData(env)[1])
    BY <2>2, <2>3
  <2>5. EnvelopeToConfigUpdate(env) =
          IF txType = "CONFIG_UPDATE" THEN ConfigUpdate(signers) ELSE Error
    BY <2>2 DEF EnvelopeToConfigUpdate, UnmarshalEnvelopeOfType
  <2> QED
    BY <2>1, <2>4, <2>5, UpdateReads DEF env
<1> QED
  BY <1>1, <1>2, <1>3

-----------------------------------------------------------------------------
(* Every step keeps what the properties follow from.                       *)

\* What was answered and sent stays what it is, whatever comes after it.
LEMMA AnswerKept ==
  ASSUME NEW a, AnswerOK(a), proposals \subseteq proposals'
  PROVE  AnswerOK(a)'
BY DEF AnswerOK

LEMMA EntryKept ==
  ASSUME NEW s, EntryOK(s), proposals \subseteq proposals', answers \subseteq answers'
  PROVE  EntryOK(s)'
BY DEF EntryOK, TxOK, ConfigOK

LEMMA SubmittedKept ==
  ASSUME SubmittedInv, UNCHANGED submitted, proposals \subseteq proposals', answers \subseteq answers'
  PROVE  SubmittedInv'
BY EntryKept DEF SubmittedInv

LEMMA TxEntry ==
  ASSUME NEW s, TxOK(s)
  PROVE  EntryOK(s)
BY DEF EntryOK

LEMMA SendOK ==
  ASSUME FlowInv, NEW entry, NEW of, NEW with, Send(entry, of, with),
         EntryOK([entry |-> entry, of |-> of, with |-> with])
  PROVE  FlowInv'
<1> PICK new : new = [entry |-> entry, of |-> of, with |-> with]
  OBVIOUS
<1>1. submitted' = Append(submitted, new) /\ UNCHANGED <<drawn, proposals, answers>>
  BY DEF Send
<1>2. ProposalInv' /\ AnswerInv'
  <2>1. ProposalInv'
    BY <1>1 DEF FlowInv, ProposalInv, ProposalOK
  <2>2. AnswerInv'
    BY <1>1, AnswerKept DEF FlowInv, AnswerInv
  <2> QED
    BY <2>1, <2>2
<1>3. /\ IsSequence(submitted') /\ DOMAIN submitted' = 1..Len(submitted)+1
      /\ DOMAIN submitted = 1..Len(submitted) /\ Len(submitted) \in Nat
      /\ \A n \in 1..Len(submitted) : submitted'[n] = submitted[n]
      /\ submitted'[Len(submitted) + 1] = new
  BY <1>1, SeqAppend DEF FlowInv, SubmittedInv
<1>4. ASSUME NEW n \in DOMAIN submitted' PROVE EntryOK(submitted[n])'
  <2>1. EntryOK(new)'
    BY <1>1, EntryKept
  <2>2. CASE n \in 1..Len(submitted)
    <3>1. EntryOK(submitted[n])
      BY <1>3, <2>2 DEF FlowInv, SubmittedInv
    <3>2. PICK s : s = submitted[n]
      OBVIOUS
    <3>3. EntryOK(s)'
      BY <1>1, <3>1, <3>2, EntryKept
    <3> QED
      BY <1>3, <2>2, <3>2, <3>3
  <2>3. CASE n = Len(submitted) + 1
    BY <1>3, <2>1, <2>3
  <2> QED
    BY <1>3, <2>2, <2>3
<1>5. SubmittedInv'
  BY <1>3, <1>4 DEF SubmittedInv
<1> QED
  BY <1>2, <1>5 DEF FlowInv

LEMMA FlowStart ==
  ASSUME Init
  PROVE  FlowInv
<1>1. submitted = <<>> /\ DOMAIN submitted = {}
  BY DEF Init
<1>2. IsSequence(submitted)
  BY <1>1 DEF IsSequence
<1> QED
  BY <1>1, <1>2, FlowAssumption DEF Init, FlowInv, ProposalInv, AnswerInv, SubmittedInv

LEMMA FlowStep ==
  ASSUME Atoms, FlowInv, [Next]_vars
  PROVE  FlowInv'
<1>1. ASSUME NEW c \in Clients, Propose(c) \/ ProposeAs(c) \/ ProposeLifecycle(c)
      PROVE  FlowInv'
  <2>1. ProposalInv' /\ proposals \subseteq proposals' /\ UNCHANGED <<answers, submitted>>
    BY <1>1, ProposeOK DEF FlowInv
  <2>2. AnswerInv'
    BY <2>1, AnswerKept DEF FlowInv, AnswerInv
  <2> QED
    BY <2>1, <2>2, SubmittedKept DEF FlowInv
<1>2. ASSUME NEW e \in Endorsers, NEW p \in proposals, Endorse(e, p)
      PROVE  FlowInv'
  <2>1. AnswerInv' /\ answers \subseteq answers' /\ UNCHANGED <<drawn, proposals, submitted>>
    BY <1>2, EndorseOK DEF FlowInv
  <2>2. ProposalInv'
    BY <2>1 DEF FlowInv, ProposalInv, ProposalOK
  <2> QED
    BY <2>1, <2>2, SubmittedKept DEF FlowInv
<1>3. ASSUME NEW c \in Clients, NEW p \in proposals, Assemble(c, p)
      PROVE  FlowInv'
  <2> DEFINE tx(with) == CreateSignedTx(p.signed.proposalBytes, c,
                                        [n \in DOMAIN with |-> with[n].response])
  <2>1. PICK with \in SeqOf(answers, MaxResponses) :
          tx(with) # Error /\ Send(Marshal(tx(with)), p, with)
    BY <1>3 DEF Assemble
  <2>2. TxOK([entry |-> Marshal(tx(with)), of |-> p, with |-> with])
    BY <2>1, AssembleOK DEF FlowInv
  <2> QED
    BY <2>1, <2>2, TxEntry, SendOK
<1>4. CASE SendConfig
  <2>1. PICK entry :
          /\ Send(entry, Nil, <<>>)
          /\ \/ \E c \in Clients : entry = SignedConfig("CONFIG_UPDATE", c, drawn, <<c>>)
             \/ entry = SignedConfig("CONFIG", Nil, Nil, <<>>)
    BY <1>4 DEF SendConfig, SignedConfig
  <2>2. EntryOK([entry |-> entry, of |-> Nil, with |-> <<>>])
    BY <2>1 DEF EntryOK, ConfigOK, FlowInv, ProposalInv
  <2> QED
    BY <2>1, <2>2, SendOK
<1>5. CASE SendJunk
  <2>1. PICK entry \in Junk : Send(entry, Nil, <<>>)
    BY <1>5 DEF SendJunk
  <2>2. EntryOK([entry |-> entry, of |-> Nil, with |-> <<>>])
    BY <2>1 DEF EntryOK
  <2> QED
    BY <2>1, <2>2, SendOK
<1>6. ASSUME UNCHANGED <<drawn, proposals, answers, submitted>>
      PROVE  FlowInv'
  <2>1. ProposalInv'
    BY <1>6 DEF FlowInv, ProposalInv, ProposalOK
  <2>2. AnswerInv'
    BY <1>6, AnswerKept DEF FlowInv, AnswerInv
  <2> QED
    BY <1>6, <2>1, <2>2, SubmittedKept DEF FlowInv
<1>7. ASSUME NEW age, Cut(age) PROVE FlowInv'
  BY <1>6, <1>7 DEF Cut
<1>8. CASE UNCHANGED vars
  BY <1>6, <1>8 DEF vars
<1> QED
  BY <1>1, <1>2, <1>3, <1>4, <1>5, <1>7, <1>8 DEF Next

\* What is proposed, answered and sent always reads as what it was made from, and no two
\* proposals share a nonce: the invariant behind the next five theorems.
THEOREM MessagesReadBack ==
  ASSUME Atoms
  PROVE  Spec => []FlowInv
BY FlowStart, FlowStep, PTL DEF Spec

\* GetProposalHash1 of the endorsers and GetProposalHash2 of the committer agree on a
\* transaction exactly when every answer in it is to its proposal, whoever assembled it
\* from what (CreateSignedTx).
THEOREM HashesBind ==
  ASSUME Atoms
  PROVE  Spec => []HashBindsResponses
BY HashProperty, MessagesReadBack, PTL

\* CreateSignedTx lets no failure and no endorsement of another response through.
THEOREM EndorsementsAreGood ==
  ASSUME Atoms
  PROVE  Spec => []EndorsementsVerify
BY EndorsementProperty, MessagesReadBack, PTL

\* GetBytesProposalPayloadForTx takes the transient data out and leaves the input.
THEOREM TransientIsPrivate ==
  ASSUME Atoms
  PROVE  Spec => []TransientStaysPrivate
BY TransientProperty, MessagesReadBack, PTL

\* What EnvelopeAsSignedData and ConfigUpdateEnvelopeAsSignedData ask to verify was signed
\* by the identity they name, over the data they give.
THEOREM SignaturesVerify ==
  ASSUME Atoms
  PROVE  Spec => []EnvelopesVerify
BY EnvelopesProperty, MessagesReadBack, PTL

\* GetOrComputeTxIDFromEnvelope finds the identifier that was given, or else one that
\* nobody else's proposal has.
THEOREM IdentifiersBind ==
  ASSUME Atoms
  PROVE  Spec => []TxIDBinds
BY TxIDProperty, MessagesReadBack, PTL

-----------------------------------------------------------------------------
(* Blocks.                                                                 *)

\* An entry that is a configuration is one of this channel.
OfChannel(entry) ==
  LET chdr == HeaderOfEnvelope(GetEnvelopeFromBlock(entry))
  IN  \/ chdr = Error
      \/ chdr.type \notin {"CONFIG", "ORDERER_TRANSACTION"}
      \/ chdr.channelId = Channel

BlockOK(block) ==
  /\ IsSequence(block.data) /\ block.data # <<>>
  /\ \A k \in DOMAIN block.data : OfChannel(block.data[k])

\* The metadata of a block names a configuration that is not after it.
MetadataOK(n) ==
  \E age \in {"old", "new"}, last \in 0..n-1 :
    /\ IsConfigBlock(chain[last + 1])
    /\ "metadata" \in DOMAIN chain[n] /\ chain[n].metadata = MetadataOf(age, last)

\* The chain starts with a configuration and never has more than was submitted.
ChainInv ==
  /\ IsSequence(chain) /\ 1 \in DOMAIN chain
  /\ \A n \in DOMAIN chain : BlockOK(chain[n])
  /\ IsConfigBlock(chain[1])
  /\ \A n \in 2..Len(chain) : MetadataOK(n)
  /\ IsFiniteSet(Entries) /\ Ordered \in 0..Len(submitted)

LEMMA EntryOfChannel ==
  ASSUME Atoms, FlowInv, NEW n \in DOMAIN submitted
  PROVE  OfChannel(submitted[n].entry)
<1> DEFINE s == submitted[n]
<1>1. EntryOK(s)
  BY DEF FlowInv, SubmittedInv
<1>2. CASE TxOK(s)
  <2>1. HeaderOfEnvelope(Envelope(n)) = Chdr(s.of)
    BY <1>2, TxReads DEF FlowInv
  <2>2. Chdr(s.of).type = "ENDORSER_TRANSACTION"
    BY <1>2 DEF TxOK, FlowInv, ProposalInv, ProposalOK
  <2> QED
    BY <2>1, <2>2 DEF OfChannel, Envelope, GetEnvelopeFromBlock
<1>3. CASE ConfigOK(s)
  <2>1. PICK txType, signer, nonce, signers :
          /\ txType \in {"CONFIG", "CONFIG_UPDATE"} /\ signer \in Clients \cup {Nil}
          /\ s.entry = SignedConfig(txType, signer, nonce, signers)
    BY <1>3 DEF ConfigOK
  <2>2. HeaderOfEnvelope(Envelope(n)).channelId = Channel
    BY <2>1, ConfigReads DEF Envelope
  <2> QED
    BY <2>2 DEF OfChannel, Envelope, GetEnvelopeFromBlock
<1>4. CASE s.entry \in Junk
  BY <1>4, JunkAssumption DEF OfChannel
<1> QED
  BY <1>1, <1>2, <1>3, <1>4 DEF EntryOK

\* A block has the entries it was cut from, and whether it is a configuration depends on
\* nothing else.
LEMMA BlockIs ==
  ASSUME NEW number, NEW prev, NEW data, NEW md
  PROVE  LET b == Block(number, prev, data)
         IN  /\ b.data = data
             /\ [b EXCEPT !.metadata = md].data = data
             /\ "metadata" \in DOMAIN [b EXCEPT !.metadata = md]
             /\ [b EXCEPT !.metadata = md].metadata = md
<1> DEFINE n == NewBlock(number, prev)
           b == Block(number, prev, data)
<1>1. PICK h : b = [[n EXCEPT !.data = data] EXCEPT !.header = h]
  BY DEF Block
<1>2. n = [kind |-> "Block", header |-> n.header, data |-> n.data, metadata |-> n.metadata]
  BY DEF NewBlock
<1> HIDE DEF n, b
<1>3. [n EXCEPT !.data = data] =
        [kind |-> "Block", header |-> n.header, data |-> data, metadata |-> n.metadata]
  BY <1>2
<1>4. b = [kind |-> "Block", header |-> h, data |-> data, metadata |-> n.metadata]
  BY <1>1, <1>3
<1> QED
  BY <1>4 DEF b

LEMMA ConfigOfData ==
  ASSUME NEW b, NEW d, b.data = d.data
  PROVE  IsConfigBlock(b) <=> IsConfigBlock(d)
BY DEF IsConfigBlock, ExtractEnvelope

LEMMA LastConfigIs ==
  ASSUME NEW blocks, IsSequence(blocks), NEW k \in DOMAIN blocks, IsConfigBlock(blocks[k])
  PROVE  /\ LastConfig(blocks) \in 0..Len(blocks)-1
         /\ IsConfigBlock(blocks[LastConfig(blocks) + 1])
<1> DEFINE S == {n \in DOMAIN blocks : IsConfigBlock(blocks[n])}
<1>1. DOMAIN blocks = 1..Len(blocks) /\ Len(blocks) \in Nat
  BY SeqAppend
<1>2. S # {} /\ S \subseteq 1..Len(blocks)
  BY <1>1
<1>3. \A n \in S : IsConfigBlock(blocks[n])
  OBVIOUS
<1>4. LastConfig(blocks) = Max(S) - 1
  BY DEF LastConfig
<1> HIDE DEF S
<1>5. \E n \in S : \A m \in S : m <= n
  BY <1>1, <1>2, Greatest
<1>6. \E n \in S : \A m \in S : n >= m
  BY <1>1, <1>2, <1>5
<1>7. PICK n \in S : n = Max(S)
  BY <1>6 DEF Max
<1>8. n \in 1..Len(blocks) /\ LastConfig(blocks) = n - 1
  BY <1>2, <1>4, <1>7
<1>9. LastConfig(blocks) + 1 = n /\ LastConfig(blocks) \in 0..Len(blocks)-1
  BY ONLY <1>1, <1>8
<1> QED
  BY <1>3, <1>7, <1>9

LEMMA GenesisIs ==
  ASSUME Atoms
  PROVE  /\ IsConfigBlock(Genesis)
         /\ BlockOK(Genesis) /\ DOMAIN Genesis.data = {1}
<1> DEFINE entry == SignedConfig("CONFIG", Nil, Nil, <<>>)
<1>1. Genesis.data = <<entry>>
  BY BlockIs DEF Genesis, SignedConfig
<1>2. /\ HeaderOfEnvelope(GetEnvelopeFromBlock(entry)) # Error
      /\ HeaderOfEnvelope(GetEnvelopeFromBlock(entry)).type = "CONFIG"
      /\ HeaderOfEnvelope(GetEnvelopeFromBlock(entry)).channelId = Channel
  BY ConfigReads DEF GetEnvelopeFromBlock
<1> HIDE DEF entry
<1>3. Len(Genesis.data) = 1 /\ DOMAIN Genesis.data = {1} /\ Genesis.data[1] = entry
  BY <1>1
<1>4. ExtractEnvelope(Genesis, 0) = GetEnvelopeFromBlock(entry)
  BY <1>3 DEF ExtractEnvelope
<1>5. IsConfigBlock(Genesis)
  BY <1>2, <1>4 DEF IsConfigBlock
<1>6. OfChannel(entry)
  BY <1>2 DEF OfChannel
<1>7. IsSequence(Genesis.data) /\ Genesis.data # <<>>
  BY <1>1, <1>3 DEF IsSequence
<1> QED
  BY <1>3, <1>5, <1>6, <1>7 DEF BlockOK

LEMMA ChainStart ==
  ASSUME Atoms, Init
  PROVE  ChainInv
<1>1. chain = <<Genesis>> /\ submitted = <<>>
  BY DEF Init
<1> HIDE DEF Genesis
<1>2. IsSequence(chain) /\ DOMAIN chain = {1} /\ chain[1] = Genesis /\ Len(chain) = 1
  BY <1>1 DEF IsSequence
<1>3. Entries = {1} \X {1}
  BY <1>2, GenesisIs DEF Entries
<1>4. IsFiniteSet(Entries) /\ Cardinality(Entries) = 1
  <2>1. IsFiniteSet({1}) /\ Cardinality({1}) = 1
    BY FS_Singleton
  <2> QED
    BY <1>3, <2>1, FS_Product
<1>5. Ordered = 0 /\ Len(submitted) = 0
  BY <1>1, <1>4 DEF Ordered
<1> QED
  BY <1>2, <1>4, <1>5, GenesisIs DEF ChainInv

\* What is submitted does not disturb the chain.
LEMMA ChainKept ==
  ASSUME ChainInv, UNCHANGED chain, Len(submitted) \in Nat, Len(submitted') \in Nat,
         Len(submitted) <= Len(submitted')
  PROVE  ChainInv'
<1>1. Entries' = Entries /\ Ordered' = Ordered /\ \A n : MetadataOK(n)' <=> MetadataOK(n)
  BY DEF Entries, Ordered, MetadataOK
<1>2. Ordered' \in 0..Len(submitted')
  BY <1>1 DEF ChainInv
<1> QED
  BY <1>1, <1>2 DEF ChainInv

LEMMA CutOK ==
  ASSUME Atoms, FlowInv, ChainInv, NEW age \in {"old", "new"}, Cut(age)
  PROVE  ChainInv'
<1> DEFINE L     == Len(chain)
           m     == Len(submitted) - Ordered
           data  == [k \in 1..m |-> submitted[Ordered + k].entry]
           block == Block(L, BlockHeaderHash(chain[L].header), data)
           last  == LastConfig(Append(chain, block))
           new   == [block EXCEPT !.metadata = MetadataOf(age, last)]
<1>1. chain' = Append(chain, new) /\ Ordered < Len(submitted) /\ UNCHANGED submitted
  BY DEF Cut
<1>2. /\ Ordered \in Nat /\ Len(submitted) \in Nat /\ m \in Nat /\ m >= 1
      /\ DOMAIN submitted = 1..Len(submitted)
  BY <1>1, SeqAppend DEF FlowInv, SubmittedInv, ChainInv
<1>3. DOMAIN data = 1..m /\ \A k \in 1..m : OfChannel(data[k])
  <2> SUFFICES ASSUME NEW k \in 1..m PROVE OfChannel(submitted[Ordered + k].entry)
    OBVIOUS
  <2>1. Ordered + k \in DOMAIN submitted
    BY <1>2
  <2> QED
    BY <2>1, EntryOfChannel
<1>4. /\ block.data = data /\ new.data = data
      /\ "metadata" \in DOMAIN new /\ new.metadata = MetadataOf(age, last)
  BY BlockIs
<1> HIDE DEF data
<1>5. IsSequence(data) /\ data # <<>>
  <2>1. data \in [1..m -> {data[n] : n \in DOMAIN data}]
    BY <1>3 DEF data
  <2>2. data \in Seq({data[n] : n \in DOMAIN data})
    BY <1>2, <2>1, SeqDef
  <2>3. 1 \in DOMAIN data
    BY <1>2, <1>3
  <2> QED
    BY <2>2, <2>3 DEF IsSequence
<1> HIDE DEF block, new, m
<1>6. /\ IsSequence(chain) /\ DOMAIN chain = 1..L /\ L \in Nat /\ L >= 1
      /\ \A b : /\ IsSequence(Append(chain, b)) /\ Len(Append(chain, b)) = L + 1
                /\ DOMAIN Append(chain, b) = 1..L+1
                /\ \A n \in 1..L : Append(chain, b)[n] = chain[n]
                /\ Append(chain, b)[L + 1] = b
  BY SeqAppend DEF ChainInv
<1>7. last \in 0..L /\ IsConfigBlock(Append(chain, block)[last + 1])
  <2>1. PICK blocks : blocks = Append(chain, block)
    OBVIOUS
  <2>2. /\ IsSequence(blocks) /\ Len(blocks) = L + 1
        /\ 1 \in DOMAIN blocks /\ IsConfigBlock(blocks[1])
    BY <1>6, <2>1 DEF ChainInv
  <2>3. /\ LastConfig(blocks) \in 0..Len(blocks)-1
        /\ IsConfigBlock(blocks[LastConfig(blocks) + 1])
    BY <2>2, LastConfigIs
  <2>4. Len(blocks) - 1 = L
    BY <1>6, <2>2
  <2> QED
    BY <2>1, <2>3, <2>4
<1>8. /\ IsSequence(chain') /\ DOMAIN chain' = 1..L+1 /\ Len(chain') = L + 1
      /\ \A n \in 1..L : chain'[n] = chain[n]
      /\ chain'[L + 1] = new
  BY <1>1, <1>6
<1> HIDE DEF last
<1>9. \A n \in DOMAIN chain' : BlockOK(chain'[n])
  <2>1. BlockOK(new)
    BY <1>3, <1>4, <1>5 DEF BlockOK
  <2> QED
    BY <1>6, <1>8, <2>1 DEF ChainInv
<1>10. \A n \in 1..L+1 : IsConfigBlock(chain'[n]) <=> IsConfigBlock(Append(chain, block)[n])
  <2>1. IsConfigBlock(new) <=> IsConfigBlock(block)
    BY <1>4, ConfigOfData
  <2> QED
    BY <1>6, <1>8, <2>1
<1>11. ASSUME NEW n \in 2..L+1 PROVE MetadataOK(n)'
  <2>1. CASE n = L + 1
    <3>1. last \in 0..n-1 /\ IsConfigBlock(chain'[last + 1])
      BY <1>6, <1>7, <1>10, <2>1
    <3>2. /\ "metadata" \in DOMAIN chain'[n]
          /\ chain'[n].metadata = MetadataOf(age, last)
      BY <1>4, <1>8, <2>1
    <3> QED
      BY <3>1, <3>2 DEF MetadataOK
  <2>2. CASE n \in 2..L
    <3>1. PICK a \in {"old", "new"}, l \in 0..n-1 :
            /\ IsConfigBlock(chain[l + 1])
            /\ "metadata" \in DOMAIN chain[n] /\ chain[n].metadata = MetadataOf(a, l)
      BY <2>2 DEF ChainInv, MetadataOK
    <3>2. l + 1 \in 1..L /\ n \in 1..L
      BY <1>6, <2>2
    <3> QED
      BY <1>8, <3>1, <3>2 DEF MetadataOK
  <2> QED
    BY <1>6, <2>1, <2>2
<1>12. IsFiniteSet(Entries') /\ Cardinality(Entries') = Cardinality(Entries) + m
  <2> DEFINE E == {L + 1} \X (1..m)
  <2>1. Entries' = Entries \cup E
    <3> DEFINE D(n) == {n} \X DOMAIN chain'[n].data
    <3>1. Entries = UNION {D(n) : n \in 1..L}
      <4>1. \A n \in 1..L : {n} \X DOMAIN chain[n].data = D(n)
        BY <1>8
      <4> HIDE DEF L, D
      <4> QED
        BY <1>6, <4>1 DEF Entries
    <3>2. Entries' = UNION {D(n) : n \in 1..L+1}
      BY <1>8 DEF Entries
    <3>3. D(L + 1) = E
      BY <1>3, <1>4, <1>8
    <3>4. 1..L+1 = 1..L \cup {L + 1}
      BY <1>6
    <3> HIDE DEF D, E, L
    <3> QED
      BY ONLY <3>1, <3>2, <3>3, <3>4
  <2>2. Entries \cap E = {}
    <3>1. L + 1 \notin 1..L
      BY <1>6
    <3>2. \A x \in Entries : x[1] \in 1..L
      BY <1>6 DEF Entries
    <3>3. \A x \in E : x[1] = L + 1
      OBVIOUS
    <3> HIDE DEF E
    <3> QED
      BY <3>1, <3>2, <3>3
  <2>3. IsFiniteSet(E) /\ Cardinality(E) = m
    <3>1. IsFiniteSet({L + 1}) /\ Cardinality({L + 1}) = 1
      BY FS_Singleton
    <3>2. IsFiniteSet(1..m) /\ Cardinality(1..m) = m
      BY <1>2, FS_Interval
    <3>3. IsFiniteSet(E) /\ Cardinality(E) = 1 * m
      BY <3>1, <3>2, FS_Product
    <3> QED
      BY <1>2, <3>3
  <2>4. IsFiniteSet(Entries) /\ Cardinality(Entries) \in Nat
    BY FS_CardinalityType DEF ChainInv
  <2> HIDE DEF E
  <2>5. /\ IsFiniteSet(Entries \cup E)
        /\ Cardinality(Entries \cup E) = Cardinality(Entries) + Cardinality(E) - 0
    BY <2>2, <2>3, <2>4, FS_Union, FS_EmptySet
  <2> QED
    BY <1>2, <2>1, <2>3, <2>4, <2>5
<1>13. Ordered' = Len(submitted)
  <2>1. Cardinality(Entries) \in Nat
    BY FS_CardinalityType DEF ChainInv
  <2> QED
    BY <1>2, <1>12, <2>1 DEF Ordered, m
<1> QED
  BY <1>1, <1>2, <1>6, <1>8, <1>9, <1>11, <1>12, <1>13 DEF ChainInv

LEMMA ChainStep ==
  ASSUME Atoms, FlowInv, FlowInv', ChainInv, [Next]_vars
  PROVE  ChainInv'
<1>1. CASE \E age \in {"old", "new"} : Cut(age)
  BY <1>1, CutOK
<1>2. ASSUME UNCHANGED chain, Len(submitted) <= Len(submitted') PROVE ChainInv'
  <2>1. Len(submitted) \in Nat
    BY SeqAppend DEF FlowInv, SubmittedInv
  <2>2. Len(submitted') \in Nat
    BY SeqAppend DEF FlowInv, SubmittedInv
  <2> QED
    BY <1>2, <2>1, <2>2, ChainKept
<1>3. ASSUME NEW entry, NEW of, NEW with, Send(entry, of, with) PROVE ChainInv'
  <2>1. UNCHANGED chain /\ Len(submitted) \in Nat /\ Len(submitted') = Len(submitted) + 1
    BY <1>3, SeqAppend DEF Send, FlowInv, SubmittedInv
  <2> QED
    BY <1>2, <2>1
<1>4. ASSUME UNCHANGED <<submitted, chain>> PROVE ChainInv'
  <2>1. Len(submitted) \in Nat
    BY SeqAppend DEF FlowInv, SubmittedInv
  <2> QED
    BY <1>2, <1>4, <2>1
<1>5. ASSUME NEW c \in Clients, Propose(c) \/ ProposeAs(c) \/ ProposeLifecycle(c)
      PROVE  ChainInv'
  BY <1>4, <1>5, ProposeOK DEF FlowInv
<1>6. ASSUME NEW e \in Endorsers, NEW p \in proposals, Endorse(e, p)
      PROVE  ChainInv'
  BY <1>4, <1>6 DEF Endorse
<1>7. ASSUME NEW c \in Clients, NEW p \in proposals, Assemble(c, p) PROVE ChainInv'
  BY <1>3, <1>7 DEF Assemble
<1>8. CASE SendConfig
  BY <1>3, <1>8 DEF SendConfig
<1>9. CASE SendJunk
  BY <1>3, <1>9 DEF SendJunk
<1>10. CASE UNCHANGED vars
  BY <1>4, <1>10 DEF vars
<1> QED
  BY <1>1, <1>5, <1>6, <1>7, <1>8, <1>9, <1>10 DEF Next

\* The two readers take the same entry apart and differ in one place.
LEMMA ReadersProperty ==
  ASSUME Atoms, ChainInv
  PROVE  ReadersAgree
<1> DEFINE byBlock(n)    == GetChainIDFromBlock(chain[n])
           env(n)        == ExtractEnvelope(chain[n], 0)
           byEnvelope(n) == IF env(n) = Error THEN Error ELSE ChannelID(env(n))
<1> SUFFICES ASSUME NEW n \in DOMAIN chain
             PROVE  /\ byBlock(n) = byEnvelope(n) \/ (byEnvelope(n) = Error /\ byBlock(n) = Nil)
                    /\ IsConfigBlock(chain[n]) => byBlock(n) = Channel
  BY DEF ReadersAgree
<1> DEFINE data == chain[n].data
           e    == GetEnvelopeFromBlock(data[1])
           chdr == HeaderOfEnvelope(e)
<1>1. data # <<>> /\ Len(data) \in Nat /\ Len(data) >= 1 /\ OfChannel(data[1])
  <2>1. IsSequence(data) /\ data # <<>> /\ \A k \in DOMAIN data : OfChannel(data[k])
    BY DEF ChainInv, BlockOK
  <2>2. DOMAIN data = 1..Len(data) /\ Len(data) \in Nat
    BY <2>1, SeqAppend
  <2>3. Len(data) # 0
    BY <2>1, EmptySeq DEF IsSequence
  <2> QED
    BY <2>1, <2>2, <2>3
<1>2. env(n) = e
  BY <1>1 DEF ExtractEnvelope
<1>3. byBlock(n) = IF chdr # Error THEN chdr.channelId ELSE Error
  BY <1>1 DEF GetChainIDFromBlock
<1>4. IsConfigBlock(chain[n]) => byBlock(n) = Channel
  BY <1>1, <1>2, <1>3 DEF IsConfigBlock, OfChannel
<1> HIDE DEF data, e
<1>5. e = Error => chdr = Error
  BY DEF HeaderOfEnvelope
<1>6. byEnvelope(n) = IF chdr # Error /\ e.payload.header.channelHeader # Nil
                      THEN chdr.channelId ELSE Error
  BY <1>2, <1>5 DEF ChannelID, ChannelHeader
<1>7. CASE chdr = Error \/ e.payload.header.channelHeader # Nil
  <2> HIDE DEF byBlock, byEnvelope, chdr
  <2> QED
    BY <1>3, <1>4, <1>6, <1>7
<1>8. CASE chdr # Error /\ e.payload.header.channelHeader = Nil
  <2>1. byEnvelope(n) = Error
    BY <1>6, <1>8
  <2>2. e # Error /\ Unmarshal("Payload", e.payload) # Error
        /\ Unmarshal("Payload", e.payload).header # Nil
    BY <1>8 DEF HeaderOfEnvelope, HeaderOfPayload
  <2>3. Unmarshal("Payload", e.payload) = e.payload
    BY <2>2 DEF Unmarshal, Zero
  <2>4. chdr = Zero["ChannelHeader"]
    BY <1>8, <2>2, <2>3 DEF HeaderOfEnvelope, HeaderOfPayload, Unmarshal
  <2>5. Zero["ChannelHeader"].channelId = Nil
    BY DEF Zero, MakeChannelHeader
  <2> HIDE DEF byBlock, byEnvelope, chdr
  <2> QED
    BY <1>3, <1>4, <1>8, <2>1, <2>4, <2>5
<1> QED
  BY <1>7, <1>8

\* What each of the five positions of a copied metadata reads as, whatever the age of the
\* orderer that wrote it.
LEMMA CopyReads ==
  ASSUME Atoms, NEW age \in {"old", "new"}, NEW last \in Nat, NEW kept,
         kept.metadata = InitBlockMetadata(MetadataOf(age, last))
  PROVE  /\ GetConsenterMetadataFromBlock(kept) = Consenters
         /\ GetLastConfigIndexFromBlock(kept) = last
         /\ \A i \in 1..5 : GetMetadataFromBlock(kept, i) # Error
<1> DEFINE lc    == [kind |-> "LastConfig", index |-> last]
           ix    == [kind |-> "Metadata", value |-> Marshal(lc)]
           index == Marshal(ix)
           obm   == [kind |-> "OrdererBlockMetadata", consenterMetadata |-> Consenters]
           sig   == [kind |-> "Metadata", value |-> obm]
           zero  == [kind |-> "Metadata", value |-> Nil]
           md    == kept.metadata
<1>1. md = InitBlockMetadata(MetadataOf(age, last))
  OBVIOUS
<1>2. /\ DOMAIN md = 1..5 /\ md # Nil /\ md[2] = index
      /\ md[1] = IF age = "old" THEN Nil ELSE sig
      /\ md[4] = IF age = "old" THEN Consenters ELSE Nil
      /\ md[3] = Nil /\ md[5] = Nil
  <2> HIDE DEF md, sig, index
  <2>1. CASE age = "old"
    <3> DEFINE w == <<Nil, index, Nil, Consenters>>
    <3>1. MetadataOf(age, last) = w
      BY <2>1 DEF MetadataOf, index
    <3>2. w # Nil /\ w # [n \in 1..5 |-> Nil] /\ Len(w) = 4
      BY DEF Atoms, NoRecord
    <3>3. md = w \o [n \in 1..1 |-> Nil]
      BY <1>1, <3>1, <3>2 DEF InitBlockMetadata
    <3> DEFINE t == [n \in 1..1 |-> Nil]
               S == {Nil, index, Consenters}
    <3>4. /\ w \in Seq(S) /\ w[1] = Nil /\ w[2] = index /\ w[3] = Nil /\ w[4] = Consenters
          /\ t \in Seq(S) /\ Len(t) = 1 /\ t[1] = Nil
      OBVIOUS
    <3> HIDE DEF w, t
    <3>5. /\ md \in Seq(S) /\ Len(md) = 5 /\ \A i \in 1..4 : md[i] = w[i]
          /\ \A i \in 5..5 : md[i] = t[i - 4]
      <4>1. md = w \o t /\ Len(w) = 4
        BY <3>2, <3>3 DEF t
      <4> HIDE DEF S
      <4>2. /\ md \in Seq(S) /\ Len(md) = 5
            /\ \A i \in 1..5 : md[i] = IF i <= 4 THEN w[i] ELSE t[i - 4]
        <5>1. /\ w \o t \in Seq(S) /\ Len(w \o t) = Len(w) + Len(t)
              /\ \A i \in 1..Len(w) + Len(t) :
                   (w \o t)[i] = IF i <= Len(w) THEN w[i] ELSE t[i - Len(w)]
          BY ONLY <3>4, ConcatProperties
        <5>2. Len(w) + Len(t) = 5
          BY ONLY <4>1, <3>4
        <5> QED
          BY ONLY <4>1, <5>1, <5>2
      <4> QED
        BY ONLY <4>2
    <3>6. DOMAIN md = 1..5 /\ md = [i \in 1..5 |-> md[i]]
      BY <3>5
    <3> QED
      BY <2>1, <3>4, <3>5, <3>6 DEF Atoms, NoRecord
  <2>2. CASE age = "new"
    <3> DEFINE w == <<sig, index, Nil, Nil, Nil>>
    <3>1. MetadataOf(age, last) = w
      BY <2>2 DEF MetadataOf, index, sig
    <3>2. w # Nil /\ Len(w) = 5
      BY DEF Atoms, NoRecord
    <3>3. md = w \o [n \in 1..0 |-> Nil]
      BY <1>1, <3>1, <3>2 DEF InitBlockMetadata
    <3>4. [n \in 1..0 |-> Nil] = <<>>
      OBVIOUS
    <3>5. md = w
      BY <3>3, <3>4
    <3> QED
      BY <2>2, <3>5 DEF Atoms, NoRecord
  <2> QED
    BY <2>1, <2>2
<1> HIDE DEF md
<1>3. \A i \in 1..5 : GetMetadataFromBlock(kept, i) = Unmarshal("Metadata", md[i])
  BY <1>2 DEF GetMetadataFromBlock, md
<1>4. Unmarshal("Metadata", Nil) = zero
  BY DEF Unmarshal, Zero
<1>5. Unmarshal("Metadata", sig) = sig /\ sig # Error /\ sig # Nil
  BY OfItself DEF Atoms, NoRecord
<1>6. Unmarshal("Metadata", Consenters) = Consenters /\ Consenters # Error /\ Consenters # Nil
  BY OfItself DEF Consenters, Atoms, NoRecord
<1>7. Unmarshal("Metadata", index) = ix /\ ix # Error /\ ix.value = Marshal(lc)
  <2>1. ix # Nil /\ ix # Error /\ ix.kind = "Metadata" /\ ix.value = Marshal(lc)
    BY DEF Atoms, NoRecord
  <2> HIDE DEF ix
  <2> QED
    BY <2>1, Readable
<1>8. Unmarshal("LastConfig", Marshal(lc)) = lc /\ lc # Error /\ lc.index = last
  <2>1. lc # Nil /\ lc # Error /\ lc.kind = "LastConfig" /\ lc.index = last
    BY DEF Atoms, NoRecord
  <2> HIDE DEF lc
  <2> QED
    BY <2>1, Readable
<1>9. /\ sig.value = obm /\ obm # Nil /\ obm # Error
      /\ Unmarshal("OrdererBlockMetadata", obm) = obm /\ obm.consenterMetadata = Consenters
  BY OfItself DEF Atoms, NoRecord
<1>10. zero # Error /\ zero.value = Nil
  BY DEF Atoms, NoRecord
<1> HIDE DEF lc, ix, index, obm, sig, zero
<1>11. /\ Index.SIGNATURES = 1 /\ Index.LAST_CONFIG = 2 /\ Index.ORDERER = 4
  BY DEF Index
<1>12. GetLastConfigIndexFromBlock(kept) = last
  BY <1>2, <1>3, <1>7, <1>8, <1>11 DEF GetLastConfigIndexFromBlock
<1>13. GetConsenterMetadataFromBlock(kept) = Consenters
  <2>1. CASE age = "old"
    BY <1>2, <1>3, <1>4, <1>6, <1>10, <1>11, <2>1 DEF GetConsenterMetadataFromBlock
  <2>2. CASE age = "new"
    BY <1>2, <1>3, <1>5, <1>6, <1>9, <1>11, <2>2 DEF GetConsenterMetadataFromBlock
  <2> QED
    BY <2>1, <2>2
<1>14. \A i \in 1..5 : GetMetadataFromBlock(kept, i) # Error
  <2> SUFFICES ASSUME NEW i \in 1..5 PROVE Unmarshal("Metadata", md[i]) # Error
    BY <1>3
  <2>1. i \in {1, 2, 3, 4, 5}
    OBVIOUS
  <2> QED
    BY <1>2, <1>4, <1>5, <1>6, <1>7, <1>10, <2>1
<1> QED
  BY <1>12, <1>13, <1>14

\* Both blocks of CopyBlockMetadata have the metadata of an orderer, extended.
LEMMA CopyShares ==
  ASSUME Atoms, NEW age \in {"old", "new"}, NEW last \in Nat, NEW src, NEW dst,
         src.metadata = MetadataOf(age, last),
         "metadata" \in DOMAIN src, "metadata" \in DOMAIN dst, NEW side \in {"src", "dst"}
  PROVE  CopyBlockMetadata(src, dst)[side].metadata = InitBlockMetadata(MetadataOf(age, last))
<1>1. MetadataOf(age, last) # Nil
  BY DEF MetadataOf, Atoms, NoRecord
<1>2. CASE side = "src"
  BY <1>1, <1>2 DEF CopyBlockMetadata
<1>3. CASE side = "dst"
  BY <1>3 DEF CopyBlockMetadata
<1> QED
  BY <1>2, <1>3

LEMMA MetadataProperty ==
  ASSUME Atoms, ChainInv
  PROVE  MetadataReadable
<1> SUFFICES ASSUME NEW n \in 2..Len(chain), NEW side \in {"src", "dst"}
             PROVE  LET kept == CopyBlockMetadata(chain[n], NewBlock(n - 1, Nil))[side]
                        last == GetLastConfigIndexFromBlock(kept)
                    IN  /\ GetConsenterMetadataFromBlock(kept) = Consenters
                        /\ last \in 0..n-1 /\ IsConfigBlock(chain[last + 1])
                        /\ \A i \in 1..5 : GetMetadataFromBlock(kept, i) # Error
  <2>1. \A name \in DOMAIN Index : Index[name] \in 1..5
    BY DEF Index
  <2> QED
    BY <2>1 DEF MetadataReadable
<1>1. PICK age \in {"old", "new"}, last \in 0..n-1 :
        /\ IsConfigBlock(chain[last + 1])
        /\ "metadata" \in DOMAIN chain[n] /\ chain[n].metadata = MetadataOf(age, last)
  BY DEF ChainInv, MetadataOK
<1>2. last \in Nat /\ "metadata" \in DOMAIN NewBlock(n - 1, Nil)
  BY DEF NewBlock
<1>3. CopyBlockMetadata(chain[n], NewBlock(n - 1, Nil))[side].metadata
        = InitBlockMetadata(MetadataOf(age, last))
  BY <1>1, <1>2, CopyShares
<1> QED
  BY <1>1, <1>2, <1>3, CopyReads

\* Every block has an entry and is marked with a configuration block that is in the chain by
\* then, a configuration in it is one of this channel, and no more is ordered than was sent.
THEOREM BlocksAreWellFormed ==
  ASSUME Atoms
  PROVE  Spec => [](FlowInv /\ ChainInv)
BY FlowStart, FlowStep, ChainStart, ChainStep, PTL DEF Spec

\* GetChainIDFromBlock and ChannelID of ExtractEnvelope name the same channel, but for a
\* header without bytes, which only one of them refuses; of a configuration block, both
\* name the channel.
THEOREM ReadersNameOneChannel ==
  ASSUME Atoms
  PROVE  Spec => []ReadersAgree
BY ReadersProperty, BlocksAreWellFormed, PTL

\* GetConsenterMetadataFromBlock and GetLastConfigIndexFromBlock find in a copy what an
\* orderer of any age wrote, and GetMetadataFromBlock never panics on one.
THEOREM CopiesAreReadable ==
  ASSUME Atoms
  PROVE  Spec => []MetadataReadable
BY MetadataProperty, BlocksAreWellFormed, PTL
=============================================================================
