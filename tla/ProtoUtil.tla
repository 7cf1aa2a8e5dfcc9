------------------------------ MODULE ProtoUtil ------------------------------
(***************************************************************************)
(* The protocol utilities (server/protoutil) as functions on messages.     *)
(*                                                                         *)
(* The bytes of a message are the message itself, a record with its kind;  *)
(* the bytes of a message whose fields all have their default are the      *)
(* empty string Nil, and Nil reads as such a message of any kind.  A       *)
(* function of the code that returns an error returns Error here.  A       *)
(* SHA-256 sum and a signature are records of what they were computed      *)
(* from: no two inputs share one.  Left out: versions, epochs, timestamps, *)
(* error texts, and chaincode events.                                      *)
(*                                                                         *)
(* A definition marked (mutant) is the next one with a bug the properties  *)
(* of ProposalFlow have to notice.                                         *)
(***************************************************************************)
EXTENDS Integers, Sequences, SequencesExt

CONSTANTS
  Nil,         (* an empty byte string, a nil pointer, an unset field       *)
  Error        (* what a function that returns an error returns             *)

ASSUME ErrorAssumption == Error # Nil

(*************************** messages and bytes ****************************)

\* the positions in the metadata of a block, from 1
Index == [SIGNATURES |-> 1, LAST_CONFIG |-> 2, TRANSACTIONS_FILTER |-> 3,
          ORDERER |-> 4, COMMIT_HASH |-> 5]

MakeChannelHeader(headerType, chainID) ==
  [kind |-> "ChannelHeader", type |-> headerType, channelId |-> chainID,
   txId |-> Nil, extension |-> Nil, tlsCertHash |-> Nil]

MakeSignatureHeader(creator, nonce) ==
  [kind |-> "SignatureHeader", creator |-> creator, nonce |-> nonce]

\* the message of each kind that is marshaled to no bytes at all
Zero ==
  [ChannelHeader            |-> MakeChannelHeader("MESSAGE", Nil),
   SignatureHeader          |-> MakeSignatureHeader(Nil, Nil),
   Header                   |-> [kind |-> "Header", channelHeader |-> Nil, signatureHeader |-> Nil],
   Payload                  |-> [kind |-> "Payload", header |-> Nil, data |-> Nil],
   Envelope                 |-> [kind |-> "Envelope", payload |-> Nil, signature |-> Nil],
   Proposal                 |-> [kind |-> "Proposal", header |-> Nil, proposalPayload |-> Nil],
   ChaincodeProposalPayload |-> [kind |-> "ChaincodeProposalPayload", input |-> Nil,
                                 transientMap |-> Nil],
   ChaincodeAction          |-> [kind |-> "ChaincodeAction", results |-> Nil,
                                 response |-> Nil, chaincodeId |-> Nil],
   ProposalResponsePayload  |-> [kind |-> "ProposalResponsePayload", proposalHash |-> Nil,
                                 extension |-> Nil],
   ChaincodeActionPayload   |-> [kind |-> "ChaincodeActionPayload",
                                 chaincodeProposalPayload |-> Nil, action |-> Nil],
   Transaction              |-> [kind |-> "Transaction", actions |-> <<>>],
   ConfigUpdateEnvelope     |-> [kind |-> "ConfigUpdateEnvelope", configUpdate |-> Nil,
                                 signatures |-> <<>>],
   Metadata                 |-> [kind |-> "Metadata", value |-> Nil],
   OrdererBlockMetadata     |-> [kind |-> "OrdererBlockMetadata", consenterMetadata |-> Nil],
   LastConfig               |-> [kind |-> "LastConfig", index |-> 0]]

\* every GetBytes... and Marshal... function
Marshal(message) == IF message = Zero[message.kind] THEN Nil ELSE message

\* every Unmarshal... function
Unmarshal(kind, encoded) ==
  CASE encoded = Nil                            -> Zero[kind]
    [] encoded # Nil /\ encoded.kind = kind     -> encoded
    [] OTHER                                    -> Error

Hash(x)           == [sha256 |-> x]
Sign(signer, msg) == [by |-> signer, over |-> msg]

(******************************** proposals ********************************)

ComputeTxID(nonce, creator) == Hash(<<nonce, creator>>)

CheckTxID(txid, nonce, creator) == txid = ComputeTxID(nonce, creator)

MakePayloadHeader(ch, sh) ==
  [kind |-> "Header", channelHeader |-> Marshal(ch), signatureHeader |-> Marshal(sh)]

CreateChaincodeProposalWithTxIDNonceAndTransient(txid, typ, chainID, cis, nonce, creator, tr) ==
  [kind            |-> "Proposal",
   header          |-> Marshal(MakePayloadHeader(
                         [MakeChannelHeader(typ, chainID) EXCEPT !.txId = txid,
                                                                 !.extension = cis.chaincodeId],
                         MakeSignatureHeader(creator, nonce))),
   proposalPayload |-> Marshal([kind |-> "ChaincodeProposalPayload", input |-> cis,
                                transientMap |-> tr])]

\* nonce: the random one that getRandomNonce returns
CreateChaincodeProposalWithTxIDAndTransient(typ, chainID, cis, nonce, creator, txid, tr) ==
  CreateChaincodeProposalWithTxIDNonceAndTransient(
    IF txid = Nil THEN ComputeTxID(nonce, creator) ELSE txid,
    typ, chainID, cis, nonce, creator, tr)

CreateChaincodeProposalWithTransient(typ, chainID, cis, nonce, creator, tr) ==
  CreateChaincodeProposalWithTxIDNonceAndTransient(
    ComputeTxID(nonce, creator), typ, chainID, cis, nonce, creator, tr)

CreateProposalFromCIS(typ, chainID, cis, nonce, creator) ==
  CreateChaincodeProposalWithTransient(typ, chainID, cis, nonce, creator, Nil)

CreateProposalFromCISAndTxid(txid, typ, chainID, cis, nonce, creator) ==
  CreateChaincodeProposalWithTxIDNonceAndTransient(txid, typ, chainID, cis, nonce, creator, Nil)

Lscc(args) == [chaincodeId |-> "lscc", args |-> args]

CreateGetChaincodesProposal(chainID, nonce, creator) ==
  CreateProposalFromCIS("ENDORSER_TRANSACTION", chainID, Lscc(<<"getchaincodes">>), nonce, creator)

CreateGetInstalledChaincodesProposal(nonce, creator) ==
  CreateProposalFromCIS("ENDORSER_TRANSACTION", Nil, Lscc(<<"getinstalledchaincodes">>),
                        nonce, creator)

\* msg: the chaincode package, a deployment specification or Nil; rest: the
\* policy and the names of the system chaincodes
createProposalFromCDS(chainID, msg, nonce, creator, propType, rest) ==
  IF propType \in {"deploy", "upgrade"} /\ msg = Nil
  THEN Error
  ELSE CreateProposalFromCIS("ENDORSER_TRANSACTION", chainID,
         Lscc(IF propType = "install" THEN <<propType, msg>>
                                      ELSE <<propType, chainID, msg>> \o rest),
         nonce, creator)

CreateInstallProposalFromCDS(ccpack, nonce, creator) ==
  createProposalFromCDS(Nil, ccpack, nonce, creator, "install", <<>>)

\* deploy and upgrade: a collection configuration is one more argument
CreateLifecycleProposal(propType, chainID, cds, nonce, creator, rest, collections) ==
  createProposalFromCDS(chainID, cds, nonce, creator, propType,
                        IF collections = Nil THEN rest ELSE Append(rest, collections))

GetSignedProposal(prop, signer) ==
  IF prop = Nil \/ signer = Nil
  THEN Error
  ELSE [proposalBytes |-> Marshal(prop), signature |-> Sign(signer, Marshal(prop))]

(*************************** proposal responses ****************************)

GetBytesProposalPayloadForTx(cpp) ==
  IF cpp = Nil THEN Error ELSE Marshal([cpp EXCEPT !.transientMap = Nil])

HashArguments(header, ccPropPayl) ==
  /\ header # Nil /\ ccPropPayl # Nil
  /\ header.channelHeader # Nil /\ header.signatureHeader # Nil

\* the committer's: ccPropPayl has no transient data any more
GetProposalHash2(header, ccPropPayl) ==
  IF HashArguments(header, ccPropPayl)
  THEN Hash(<<header.channelHeader, header.signatureHeader, ccPropPayl>>)
  ELSE Error

\* (mutant) the endorser hashes what it was given
GetProposalHashAll(header, ccPropPayl) == GetProposalHash2(header, ccPropPayl)

\* the endorser's: ccPropPayl is the payload of the proposal
GetProposalHash1(header, ccPropPayl) ==
  LET cpp == Unmarshal("ChaincodeProposalPayload", ccPropPayl)
  IN  IF HashArguments(header, ccPropPayl) /\ cpp # Error
      THEN Hash(<<header.channelHeader, header.signatureHeader,
                  GetBytesProposalPayloadForTx(cpp)>>)
      ELSE Error

GetBytesProposalResponsePayload(hash, response, result, ccid) ==
  Marshal([kind         |-> "ProposalResponsePayload",
           proposalHash |-> hash,
           extension    |-> Marshal([kind |-> "ChaincodeAction", results |-> result,
                                     response |-> response, chaincodeId |-> ccid])])

\* the answer of an endorser without its status and its signature
ResponsePayload(hdrbytes, payl, response, results, ccid) ==
  LET hdr == Unmarshal("Header", hdrbytes)
  IN  IF hdr # Error /\ GetProposalHash1(hdr, payl) # Error
      THEN GetBytesProposalResponsePayload(GetProposalHash1(hdr, payl), response, results, ccid)
      ELSE Error

\* the status of the answer is 200 whatever the response of the chaincode is
CreateProposalResponse(hdrbytes, payl, response, results, ccid, signingEndorser) ==
  LET prp == ResponsePayload(hdrbytes, payl, response, results, ccid)
  IN  IF prp = Error
      THEN Error
      ELSE [status |-> 200, prp |-> prp,
            endorsement |-> [endorser  |-> signingEndorser,
                             signature |-> Sign(signingEndorser, <<prp, signingEndorser>>)]]

\* the answer has the status of the chaincode's and no endorsement
CreateProposalResponseFailure(hdrbytes, payl, response, results, ccid) ==
  LET prp == ResponsePayload(hdrbytes, payl, response, results, ccid)
  IN  IF prp = Error
      THEN Error
      ELSE [status |-> response, prp |-> prp, endorsement |-> Nil]

(******************************** envelopes ********************************)

\* (mutant) does not compare the payloads
ResponsesSucceed(resps) ==
  resps # <<>> /\ \A n \in DOMAIN resps : resps[n].status \in 200..399

\* the loop of CreateSignedTx; that the responses are to the proposal is not
\* looked at
ResponsesAgree(resps) ==
  /\ resps # <<>>
  /\ \A n \in DOMAIN resps :
       resps[n].status \in 200..399 /\ resps[n].prp = resps[1].prp

EndorsedTransaction(hdr, cpp, resps) ==
  [kind    |-> "Transaction",
   actions |-> <<[header  |-> hdr.signatureHeader,
                  payload |-> Marshal(
                    [kind   |-> "ChaincodeActionPayload",
                     chaincodeProposalPayload |-> GetBytesProposalPayloadForTx(cpp),
                     action |-> [prp          |-> resps[1].prp,
                                 endorsements |-> [n \in DOMAIN resps |-> resps[n].endorsement]]])]>>]

SignedEnvelope(payload, signer) ==
  [kind      |-> "Envelope",
   payload   |-> Marshal(payload),
   signature |-> IF signer = Nil THEN Nil ELSE Sign(signer, Marshal(payload))]

\* (mutant) signs for whoever made the proposal
CreateTxForAnyone(proposal, signer, resps) ==
  LET hdr == Unmarshal("Header", proposal.header)
      cpp == Unmarshal("ChaincodeProposalPayload", proposal.proposalPayload)
  IN  IF hdr # Error /\ cpp # Error /\ ResponsesAgree(resps)
      THEN SignedEnvelope([kind |-> "Payload", header |-> hdr,
                           data |-> Marshal(EndorsedTransaction(hdr, cpp, resps))], signer)
      ELSE Error

CreateSignedTx(proposal, signer, resps) ==
  LET hdr  == Unmarshal("Header", proposal.header)
      cpp  == Unmarshal("ChaincodeProposalPayload", proposal.proposalPayload)
      shdr == Unmarshal("SignatureHeader", hdr.signatureHeader)
  IN  IF /\ hdr # Error /\ cpp # Error
         /\ shdr # Error /\ shdr.creator = signer
         /\ ResponsesAgree(resps)
      THEN SignedEnvelope([kind |-> "Payload", header |-> hdr,
                           data |-> Marshal(EndorsedTransaction(hdr, cpp, resps))], signer)
      ELSE Error

\* an envelope of another kind than a transaction; a nil signer leaves it
\* unsigned, with an empty signature header
CreateSignedEnvelopeWithTLSBinding(txType, channelID, signer, nonce, dataMsg, tlsCertHash) ==
  SignedEnvelope(
    [kind   |-> "Payload",
     header |-> MakePayloadHeader(
                  [MakeChannelHeader(txType, channelID) EXCEPT !.tlsCertHash = tlsCertHash],
                  IF signer = Nil THEN Zero.SignatureHeader ELSE MakeSignatureHeader(signer, nonce)),
     data   |-> Marshal(dataMsg)],
    signer)

CreateSignedEnvelope(txType, channelID, signer, nonce, dataMsg) ==
  CreateSignedEnvelopeWithTLSBinding(txType, channelID, signer, nonce, dataMsg, Nil)

(********************** what an envelope is read as ************************)

GetEnvelopeFromBlock(data) == Unmarshal("Envelope", data)

\* the channel header of a payload, when it can be read
HeaderOfPayload(payload) ==
  IF payload # Error /\ payload.header # Nil
  THEN Unmarshal("ChannelHeader", payload.header.channelHeader)
  ELSE Error

HeaderOfEnvelope(env) ==
  IF env = Error THEN Error ELSE HeaderOfPayload(Unmarshal("Payload", env.payload))

\* unlike the others, refuses a channel header of no bytes
ChannelHeader(env) ==
  IF HeaderOfEnvelope(env) # Error /\ env.payload.header.channelHeader # Nil
  THEN HeaderOfEnvelope(env)
  ELSE Error

ChannelID(env) == IF ChannelHeader(env) = Error THEN Error ELSE ChannelHeader(env).channelId

UnmarshalEnvelopeOfType(env, headerType, kind) ==
  LET chdr == HeaderOfEnvelope(env)
  IN  IF chdr # Error /\ chdr.type = headerType
      THEN Unmarshal(kind, env.payload.data)
      ELSE Error

EnvelopeToConfigUpdate(env) == UnmarshalEnvelopeOfType(env, "CONFIG_UPDATE", "ConfigUpdateEnvelope")

\* (mutant) believes the header, an empty identifier too
TxIDOfHeader(encoded) ==
  LET env == Unmarshal("Envelope", encoded)
  IN  IF HeaderOfEnvelope(env) = Error THEN Error ELSE HeaderOfEnvelope(env).txId

GetOrComputeTxIDFromEnvelope(encoded) ==
  LET env  == Unmarshal("Envelope", encoded)
      chdr == HeaderOfEnvelope(env)
      shdr == Unmarshal("SignatureHeader", env.payload.header.signatureHeader)
  IN  CASE chdr = Error                    -> Error
        [] chdr # Error /\ chdr.txId # Nil -> chdr.txId
        [] OTHER -> IF shdr = Error THEN Error ELSE ComputeTxID(shdr.nonce, shdr.creator)

\* what has to be verified before an envelope is believed
EnvelopeAsSignedData(env) ==
  LET payload == Unmarshal("Payload", env.payload)
      shdr    == Unmarshal("SignatureHeader", payload.header.signatureHeader)
  IN  IF payload # Error /\ payload.header # Nil /\ shdr # Error
      THEN <<[data |-> env.payload, identity |-> shdr.creator, signature |-> env.signature]>>
      ELSE Error

ConfigUpdateEnvelopeAsSignedData(ce) ==
  LET shdr(sig) == Unmarshal("SignatureHeader", sig.signatureHeader)
  IN  IF ce = Nil \/ \E n \in DOMAIN ce.signatures : shdr(ce.signatures[n]) = Error
      THEN Error
      ELSE [n \in DOMAIN ce.signatures |->
              [data      |-> <<ce.signatures[n].signatureHeader, ce.configUpdate>>,
               identity  |-> shdr(ce.signatures[n]).creator,
               signature |-> ce.signatures[n].signature]]

\* the payload of an action and the chaincode's part of what was endorsed
GetPayloads(txAction) ==
  LET cap == Unmarshal("ChaincodeActionPayload", txAction.payload)
      prp == Unmarshal("ProposalResponsePayload", cap.action.prp)
  IN  IF /\ cap # Error /\ cap.action # Nil /\ cap.action.prp # Nil
         /\ prp # Error /\ prp.extension # Nil
      THEN [ccPayload |-> cap, respPayload |-> Unmarshal("ChaincodeAction", prp.extension)]
      ELSE Error

GetActionFromEnvelopeMsg(env) ==
  LET payload == Unmarshal("Payload", env.payload)
      tx      == Unmarshal("Transaction", payload.data)
  IN  IF /\ payload # Error /\ tx # Error /\ tx.actions # <<>>
         /\ GetPayloads(tx.actions[1]) # Error
      THEN GetPayloads(tx.actions[1]).respPayload
      ELSE Error

(********************************* blocks **********************************)

NewBlock(seqNum, previousHash) ==
  [kind     |-> "Block",
   header   |-> [number |-> seqNum, previousHash |-> previousHash, dataHash |-> Nil],
   data     |-> <<>>,
   metadata |-> [n \in 1..5 |-> Nil]]

BlockHeaderHash(h) == Hash(<<h.number, h.previousHash, h.dataHash>>)

\* of the concatenation of the entries: an empty one leaves no trace
BlockDataHash(data) == Hash(SelectSeq(data, LAMBDA entry : entry # Nil))

\* (mutant) index counts from 1
ExtractEnvelopeFrom1(block, index) ==
  IF index \in 1..Len(block.data) THEN GetEnvelopeFromBlock(block.data[index]) ELSE Error

\* index counts from 0
ExtractEnvelope(block, index) ==
  IF index \in 0..Len(block.data)-1
  THEN GetEnvelopeFromBlock(block.data[index + 1])
  ELSE Error

GetChainIDFromBlock(block) ==
  LET chdr == HeaderOfEnvelope(GetEnvelopeFromBlock(block.data[1]))
  IN  IF block.data # <<>> /\ chdr # Error THEN chdr.channelId ELSE Error

IsConfigBlock(block) ==
  LET chdr == HeaderOfEnvelope(ExtractEnvelope(block, 0))
  IN  chdr # Error /\ chdr.type \in {"CONFIG", "ORDERER_TRANSACTION"}

\* Error is the panic for a position that is not there
GetMetadataFromBlock(block, index) ==
  IF block.metadata # Nil /\ index \in DOMAIN block.metadata
  THEN Unmarshal("Metadata", block.metadata[index])
  ELSE Error

\* (mutant) knows the old place only
GetConsenterMetadataOld(block) == GetMetadataFromBlock(block, Index.ORDERER)

\* orderers before 1.4.1 kept it elsewhere
GetConsenterMetadataFromBlock(block) ==
  LET m   == GetMetadataFromBlock(block, Index.SIGNATURES)
      obm == Unmarshal("OrdererBlockMetadata", m.value)
  IN  CASE m = Error                    -> Error
        [] m # Error /\ m.value = Nil   -> GetMetadataFromBlock(block, Index.ORDERER)
        [] OTHER -> IF obm = Error THEN Error ELSE Unmarshal("Metadata", obm.consenterMetadata)

GetLastConfigIndexFromBlock(block) ==
  LET m  == GetMetadataFromBlock(block, Index.LAST_CONFIG)
      lc == Unmarshal("LastConfig", m.value)
  IN  IF m # Error /\ lc # Error THEN lc.index ELSE Error

\* the metadata of a block, brought to five positions
InitBlockMetadata(metadata) ==
  IF metadata = Nil
  THEN [n \in 1..5 |-> Nil]
  ELSE metadata \o [n \in 1..(5 - Len(metadata)) |-> Nil]

\* What becomes of both: dst gets the metadata of src and not a copy, so that src
\* grows with it, unless it had none.
CopyBlockMetadata(src, dst) ==
  LET shared == InitBlockMetadata(src.metadata)
  IN  [src |-> [src EXCEPT !.metadata = IF @ = Nil THEN Nil ELSE shared],
       dst |-> [dst EXCEPT !.metadata = shared]]
=============================================================================
