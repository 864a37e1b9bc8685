------------------------- MODULE NodeStreams_proofs -------------------------
(***************************************************************************)
(* What NodeStreams promises for every number of edits, rotations, faults  *)
(* and held requests, as long as the database is not restored.             *)
(*                                                                         *)
(* Documents travel in one order: what the core runs is no newer than what *)
(* the agent holds, that no newer than the reply on its way, and that no   *)
(* newer than what was minted; a newer roster never has an older           *)
(* credential.                                                             *)
(***************************************************************************)
EXTENDS NodeStreams, TLAPS

CredOf(d) == IF d.version = 0 THEN 0 ELSE d.body.cred

\* Document d of stream n was minted no later than document e.
NotAfter(n, d, e) ==
  /\ d.version <= e.version
  /\ d.version = e.version => d = e
  /\ n = "roster" => CredOf(d) <= CredOf(e)
NoLater(d, e) == \A n \in Names : NotAfter(n, d[n], e[n])

Order ==
  /\ NoLater(core, have) /\ NoLater(have, stream)
  /\ reply # Idle => NoLater(have, reply.doc) /\ NoLater(reply.doc, stream)

\* What a request says the core runs, the core has run.
Receipts ==
  \A s \in Slots : request[s] # Idle =>
    /\ NoLater(request[s].have, stream)
    /\ request[s].up["roster"] =>
         /\ request[s].have.roster.version # 0
         /\ CredOf(request[s].have.roster) <= CredOf(core.roster)
    /\ request[s].up["config"] =>
         /\ request[s].have.config.version # 0
         /\ request[s].have.config.body.intent \in ran

\* The exchange answers a request the server holds, with a snapshot no older
\* than anything minted before it.
Exchange ==
  /\ CredOf(stream.roster) <= client.cred
  /\ serve # Idle =>
       /\ request[serve.slot] # Idle
       /\ CredOf(stream.roster) <= serve.cred /\ serve.cred <= client.cred
       /\ serve.stage = "roster" => stream.config.version # 0

CoreInv ==
  /\ client.applied <= CredOf(core.roster)
  /\ core.config.version # 0 => core.config.body.intent \in ran

SInv == STypeOK /\ Order /\ Receipts /\ Exchange /\ CoreInv
-----------------------------------------------------------------------------
\* The empty document is the one without a version.
LEMMA DocFacts ==
  ASSUME NEW d \in Docs
  PROVE  /\ \A n \in Names : d[n].version \in Nat /\ (d[n] = NoDoc <=> d[n].version = 0)
         /\ d.roster.version # 0 => d.roster.body \in [cred : Creds, min : Nat \ {0}]
         /\ d.config.version # 0 => d.config.body \in [intent : Intents]
         /\ CredOf(d.roster) \in 0..MaxCred
BY StreamsAssumption DEF Docs, Names, Config, Roster, NoDoc, CredOf, Creds

LEMMA NoLaterSelf == ASSUME NEW d \in Docs PROVE NoLater(d, d)
BY DocFacts DEF NoLater, NotAfter, Names

LEMMA NoLaterTrans ==
  ASSUME NEW d \in Docs, NEW e \in Docs, NEW f \in Docs, NoLater(d, e), NoLater(e, f)
  PROVE  NoLater(d, f)
<1>1. /\ \A n \in Names : d[n].version \in Nat /\ e[n].version \in Nat /\ f[n].version \in Nat
      /\ CredOf(d["roster"]) \in 0..MaxCred /\ CredOf(e["roster"]) \in 0..MaxCred
      /\ CredOf(f["roster"]) \in 0..MaxCred
  BY DocFacts DEF Names
<1>2. ASSUME NEW n \in Names PROVE NotAfter(n, d[n], f[n])
  <2>1. NotAfter(n, d[n], e[n]) /\ NotAfter(n, e[n], f[n])
    BY DEF NoLater
  <2> QED BY <1>1, <2>1, StreamsAssumption DEF NotAfter
<1> QED BY <1>2 DEF NoLater

\* Taking some documents from d and the others from e stays between them.
LEMMA MixedDocs ==
  ASSUME NEW d \in Docs, NEW e \in Docs, NEW k, NoLater(d, e)
  PROVE  LET m == [n \in Names |-> IF k[n] THEN d[n] ELSE e[n]]
         IN m \in Docs /\ NoLater(d, m) /\ NoLater(m, e)
<1> DEFINE m == [n \in Names |-> IF k[n] THEN d[n] ELSE e[n]]
<1>1. m \in Docs
  BY DEF Docs, Names
<1>2. ASSUME NEW n \in Names PROVE NotAfter(n, d[n], m[n]) /\ NotAfter(n, m[n], e[n])
  <2>1. NotAfter(n, d[n], d[n]) /\ NotAfter(n, e[n], e[n]) /\ NotAfter(n, d[n], e[n])
    BY NoLaterSelf DEF NoLater
  <2>2. m[n] = d[n] \/ m[n] = e[n]
    OBVIOUS
  <2> HIDE DEF m
  <2> QED BY <2>1, <2>2
<1> QED BY <1>1, <1>2 DEF NoLater

-----------------------------------------------------------------------------
LEMMA InitInv == ASSUME "restored" \notin Starts, SInit PROVE SInv
<1>1. Empty \in Docs /\ (\A n \in Names : Empty[n].version = 0) /\ CredOf(Empty.roster) = 0
  BY DEF Empty, Docs, Names, NoDoc, CredOf
<1>2. NoLater(Empty, Empty)
  BY <1>1, NoLaterSelf
<1>3. stream = Empty /\ have = Empty /\ core = Empty /\ client.applied = 0 /\ ran = {}
  BY DEF SInit
<1>4. STypeOK
  BY <1>1, <1>3, StreamsAssumption DEF SInit, STypeOK, Creds, Idle
<1>5. Order /\ Receipts
  BY <1>2, <1>3 DEF SInit, Order, Receipts, Idle
<1>6. Exchange /\ CoreInv
  BY <1>1, <1>3, StreamsAssumption DEF SInit, Exchange, CoreInv, Idle, Names
<1> QED BY <1>4, <1>5, <1>6 DEF SInv

\* The rows change and nothing of the exchange does.
LEMMA RowSteps ==
  ASSUME SInv, UNCHANGED <<stream, serve, net, agent>>,
         client'.applied = client.applied, client.cred <= client'.cred, STypeOK'
  PROVE  SInv'
<1>1. Order' /\ Receipts' /\ CoreInv'
  BY DEF SInv, Order, Receipts, CoreInv, net, agent
<1>2. /\ CredOf(stream.roster) \in Nat /\ client.cred \in Nat /\ client'.cred \in Nat
      /\ serve # Idle => serve.cred \in Nat
  BY DocFacts, StreamsAssumption DEF SInv, STypeOK, Serving, Creds, Idle
<1>3. Exchange'
  BY <1>2 DEF SInv, Exchange, net
<1> QED BY <1>1, <1>3 DEF SInv

\* A step that leaves documents, the requests and the agent alone.
LEMMA QuietSteps ==
  ASSUME SInv, UNCHANGED <<stream, request, reply, agent>>, STypeOK', Exchange', CoreInv'
  PROVE  SInv'
BY DEF SInv, Order, Receipts, agent

LEMMA EditSteps ==
  ASSUME SInv, (\E i \in Intents : EditIntent(i)) \/ MarkPending \/ Rotate
  PROVE  SInv'
<1>1. CASE \E i \in Intents : EditIntent(i)
  <2>1. STypeOK'
    BY <1>1, StreamsAssumption DEF SInv, STypeOK, EditIntent, net, agent, Creds
  <2> QED BY <1>1, <2>1, RowSteps, StreamsAssumption DEF EditIntent, SInv, STypeOK, Creds
<1>2. CASE MarkPending
  <2>1. STypeOK'
    BY <1>2 DEF SInv, STypeOK, MarkPending, net, agent, Idle
  <2> QED BY <1>2, <2>1, RowSteps, StreamsAssumption DEF MarkPending, SInv, STypeOK, Creds
<1>3. CASE Rotate
  <2>1. client.cred \in Nat /\ client'.cred = client.cred + 1 /\ client'.applied = client.applied
    BY <1>3, StreamsAssumption DEF Rotate, SInv, STypeOK, Creds
  <2>2. STypeOK'
    BY <1>3, StreamsAssumption DEF SInv, STypeOK, Rotate, net, agent, Creds
  <2> QED BY <1>3, <2>1, <2>2, RowSteps DEF Rotate
<1> QED BY <1>1, <1>2, <1>3

LEMMA SendStep ==
  ASSUME SInv, NEW s \in Slots, NEW full \in BOOLEAN, Send(s, full)
  PROVE  SInv'
<1> DEFINE r == [stage |-> "sent", waiting |-> TRUE, full |-> full, have |-> have,
                 up |-> [n \in Names |-> full /\ have[n] # NoDoc /\ core[n] = have[n]]]
<1>1. request' = [request EXCEPT ![s] = r] /\ request[s] = Idle
  BY DEF Send
<1>2. r \in Request
  BY DEF SInv, STypeOK, Request
<1>3. STypeOK'
  BY <1>1, <1>2 DEF SInv, STypeOK, Send, rows, agent
<1>4. /\ NoLater(r.have, stream)
      /\ r.up["roster"] => r.have.roster.version # 0 /\ r.have.roster = core.roster
      /\ r.up["config"] => r.have.config.version # 0 /\ r.have.config = core.config
  BY DocFacts DEF SInv, STypeOK, Order, Names
<1>5. CredOf(core.roster) \in Nat
  BY DocFacts, StreamsAssumption DEF SInv, STypeOK
<1>6. request'[s] = r /\ \A u \in Slots : u # s => request'[u] = request[u]
  BY <1>1 DEF SInv, STypeOK
<1> HIDE DEF r
<1>7. Receipts'
  BY <1>4, <1>5, <1>6 DEF SInv, Receipts, CoreInv, Send, agent
<1>8. Order' /\ CoreInv'
  BY DEF SInv, Order, CoreInv, Send, agent, rows
<1>9. Exchange'
  BY <1>1, <1>2, <1>6 DEF SInv, Exchange, Send, rows, STypeOK, Serving, Idle, Request
<1> QED BY <1>3, <1>7, <1>8, <1>9 DEF SInv

LEMMA BeginStep == ASSUME SInv, NEW s \in Slots, Begin(s) PROVE SInv'
<1>1. Order' /\ CoreInv'
  BY DEF SInv, Order, CoreInv, Begin, rows, agent
<1>2. Receipts'
  BY DEF SInv, Receipts, Begin, rows, agent, STypeOK
<1>3. CASE Refused(request[s].have)
  <2>1. STypeOK'
    BY <1>3 DEF SInv, STypeOK, Begin, rows, agent
  <2> QED BY <1>1, <1>2, <1>3, <2>1 DEF SInv, Exchange, Begin, rows
<1>4. CASE ~Refused(request[s].have)
  <2> DEFINE e == [stage |-> IF request[s].full THEN "clients" ELSE "config",
                   slot |-> s, intent |-> node.intent, cred |-> client.cred]
  <2>1. serve' = e /\ request' = request /\ request[s] # Idle
    BY <1>4 DEF Begin
  <2>2. e \in Serving /\ e.stage # "roster" /\ e.slot = s /\ e.cred = client.cred
    BY DEF SInv, STypeOK, Serving, Stages
  <2> HIDE DEF e
  <2>3. STypeOK'
    BY <2>1, <2>2 DEF SInv, STypeOK, Begin, rows, agent
  <2>4. client.cred \in Nat
    BY StreamsAssumption DEF SInv, STypeOK, Creds
  <2>5. Exchange'
    BY <2>1, <2>2, <2>4 DEF SInv, Exchange, Begin, rows
  <2> QED BY <1>1, <1>2, <2>3, <2>5 DEF SInv
<1> QED BY <1>3, <1>4

\* Facts about the exchange in progress.
LEMMA ServingFacts ==
  ASSUME SInv, serve # Idle
  PROVE  /\ serve \in Serving /\ serve.cred \in Creds /\ serve.intent \in Intents
         /\ serve.slot \in Slots /\ request[serve.slot] \in Request
         /\ \A p \in Stages : [serve EXCEPT !.stage = p] \in Serving
         /\ \A p : /\ [serve EXCEPT !.stage = p].cred = serve.cred
                   /\ [serve EXCEPT !.stage = p].slot = serve.slot
                   /\ [serve EXCEPT !.stage = p].intent = serve.intent
                   /\ [serve EXCEPT !.stage = p].stage = p
BY DEF SInv, STypeOK, Serving, Exchange

LEMMA ClientStep == ASSUME SInv, ReconcileClients PROVE SInv'
<1>0. serve # Idle
  BY DEF ReconcileClients, Idle
<1>1. /\ serve' = [serve EXCEPT !.stage = "nodes"]
      /\ serve' \in Serving /\ serve'.stage = "nodes" /\ serve'.slot = serve.slot
      /\ serve'.cred = serve.cred
  BY <1>0, ServingFacts DEF ReconcileClients, Goto, Stages
<1>2. /\ client' \in [cred : Creds, applied : 0..MaxCred, state : {"pending", "applied"}]
      /\ client'.cred = client.cred
      /\ \/ client'.applied = client.applied
         \/ /\ CurrentReceipt("roster") /\ Req.up.roster
            /\ stream.roster.body.cred = serve.cred /\ client'.applied = serve.cred
  <2> DEFINE R == [cred : Creds, applied : 0..MaxCred, state : {"pending", "applied"}]
  <2>1. client \in R /\ serve.cred \in 0..MaxCred
    BY <1>0, ServingFacts, StreamsAssumption DEF SInv, STypeOK, Creds
  <2>2. CASE client' = client
    BY <2>1, <2>2
  <2>3. CASE client' = [client EXCEPT !.state = "pending"]
    BY <2>1, <2>3
  <2>4. CASE /\ CurrentReceipt("roster") /\ Req.up.roster /\ stream.roster.body.cred = serve.cred
             /\ client' = [client EXCEPT !.applied = serve.cred, !.state = "applied"]
    BY <2>1, <2>4
  <2> QED BY <2>2, <2>3, <2>4 DEF ReconcileClients
<1>3. STypeOK'
  BY <1>1, <1>2 DEF SInv, STypeOK, ReconcileClients, net, agent
<1>4. client'.applied <= CredOf(core.roster)
  <2>1. CASE client'.applied = client.applied
    BY <2>1 DEF SInv, CoreInv
  <2>2. CASE /\ CurrentReceipt("roster") /\ Req.up.roster
             /\ stream.roster.body.cred = serve.cred /\ client'.applied = serve.cred
    <3>1. Req.have.roster.version # 0 /\ CredOf(Req.have.roster) <= CredOf(core.roster)
      BY <1>0, <2>2, ServingFacts DEF SInv, Receipts, Req, Exchange
    <3>2. CredOf(Req.have.roster) = serve.cred
      BY <2>2, <3>1 DEF CurrentReceipt, CredOf
    <3> QED BY <2>2, <3>1, <3>2
  <2> QED BY <1>2, <2>1, <2>2
<1>5. CoreInv'
  BY <1>4 DEF SInv, CoreInv, ReconcileClients, agent
<1>6. Exchange'
  BY <1>0, <1>1, <1>2 DEF SInv, Exchange, ReconcileClients, net
<1> QED BY <1>3, <1>5, <1>6, QuietSteps DEF ReconcileClients, net

LEMMA NodeStep == ASSUME SInv, ConfirmNodes PROVE SInv'
<1>0. serve # Idle
  BY DEF ConfirmNodes, Idle
<1>1. /\ serve' = [serve EXCEPT !.stage = "config"]
      /\ serve' \in Serving /\ serve'.stage = "config" /\ serve'.slot = serve.slot
      /\ serve'.cred = serve.cred
  BY <1>0, ServingFacts DEF ConfirmNodes, Goto, Stages
<1>2. node' \in [intent : Intents, state : {"pending", "synced"}]
  BY DEF ConfirmNodes, ConfirmAppliedConfig, SInv, STypeOK
<1>3. STypeOK'
  BY <1>1, <1>2 DEF SInv, STypeOK, ConfirmNodes, net, agent
<1>4. CoreInv' /\ Exchange'
  BY <1>0, <1>1 DEF SInv, CoreInv, Exchange, ConfirmNodes, net, agent
<1> QED BY <1>3, <1>4, QuietSteps DEF ConfirmNodes, net

\* What minting does: a new content gets the next version, and the document
\* that was there is no later.
LEMMA MintFacts ==
  ASSUME STypeOK, NEW n \in Names, NEW b, MintStream(n, b),
         n = "config" => b \in [intent : Intents],
         n = "roster" => /\ b \in [cred : Creds, min : Nat \ {0}]
                         /\ CredOf(stream.roster) <= b.cred
  PROVE  /\ stream' \in Docs /\ NoLater(stream, stream')
         /\ stream'[n].version # 0 /\ stream'[n].body = b
         /\ \A k \in Names : k # n => stream'[k] = stream[k]
<1>1. stream \in Docs /\ stream[n].version \in Nat
  BY DocFacts DEF STypeOK
<1>2. CASE stream[n].body = b
  <2>1. stream' = stream
    BY <1>2 DEF MintStream
  <2>2. stream[n] # NoDoc
    BY <1>1, <1>2 DEF Names, NoDoc
  <2> QED BY <1>1, <1>2, <2>1, <2>2, NoLaterSelf, DocFacts
<1>3. CASE stream[n].body # b
  <2> DEFINE e == [version |-> stream[n].version + 1, body |-> b]
  <2>1. stream' = [stream EXCEPT ![n] = e]
    BY <1>3 DEF MintStream
  <2>2. e.version = stream[n].version + 1 /\ e.body = b /\ e.version # 0
    BY <1>1
  <2>3. (n = "config" => e \in Config) /\ (n = "roster" => e \in Roster /\ CredOf(e) = b.cred)
    BY <1>1 DEF Config, Roster, CredOf
  <2> HIDE DEF e
  <2>4. stream'[n] = e /\ \A k \in Names : k # n => stream'[k] = stream[k]
    BY <1>1, <2>1 DEF Docs, Names
  <2>5. stream' \in Docs
    BY <1>1, <2>1, <2>3 DEF Docs, Names
  <2>6. ASSUME NEW k \in Names PROVE NotAfter(k, stream[k], stream'[k])
    <3>1. CASE k = n
      BY <1>1, <2>2, <2>3, <2>4, <3>1 DEF NotAfter
    <3>2. CASE k # n
      BY <1>1, <2>4, <3>2, NoLaterSelf DEF NoLater
    <3> QED BY <3>1, <3>2
  <2> QED BY <2>2, <2>4, <2>5, <2>6 DEF NoLater
<1> QED BY <1>2, <1>3

\* New versions leave everything on its way behind what was minted.
LEMMA MintKeepsOrder ==
  ASSUME SInv, stream' \in Docs, NoLater(stream, stream')
  PROVE  /\ NoLater(have, stream')
         /\ reply # Idle => NoLater(reply.doc, stream')
         /\ \A s \in Slots : request[s] # Idle => NoLater(request[s].have, stream')
<1>1. stream \in Docs /\ have \in Docs /\ NoLater(have, stream)
  BY DEF SInv, STypeOK, Order
<1>2. NoLater(have, stream')
  BY <1>1, NoLaterTrans
<1>3. ASSUME reply # Idle PROVE NoLater(reply.doc, stream')
  <2>1. reply.doc \in Docs /\ NoLater(reply.doc, stream)
    BY <1>3 DEF SInv, STypeOK, Order
  <2> QED BY <1>1, <2>1, NoLaterTrans
<1>4. ASSUME NEW s \in Slots, request[s] # Idle PROVE NoLater(request[s].have, stream')
  <2>1. request[s].have \in Docs /\ NoLater(request[s].have, stream)
    BY <1>4 DEF SInv, STypeOK, Receipts, Request
  <2> QED BY <1>1, <2>1, NoLaterTrans
<1> QED BY <1>2, <1>3, <1>4

LEMMA ConfigStep == ASSUME SInv, MintConfig PROVE SInv'
<1>0. serve # Idle
  BY DEF MintConfig, Idle
<1>1. /\ serve' \in Serving /\ serve'.slot = serve.slot /\ serve'.cred = serve.cred
  BY <1>0, ServingFacts DEF MintConfig, Goto, Stages
<1> DEFINE b == [intent |-> serve.intent]
<1>2. b \in [intent : Intents] /\ STypeOK /\ MintStream("config", b)
  BY <1>0, ServingFacts DEF MintConfig, SInv
<1> HIDE DEF b
<1>3. /\ stream' \in Docs /\ NoLater(stream, stream')
      /\ stream'.config.version # 0 /\ stream'.roster = stream.roster
  <2>1. "config" \in Names /\ "roster" \in Names
    BY DEF Names
  <2> QED BY <1>2, <2>1, MintFacts
<1>4. STypeOK'
  BY <1>1, <1>3 DEF SInv, STypeOK, MintConfig, rows, net, agent
<1>5. Order' /\ Receipts'
  BY <1>3, MintKeepsOrder DEF SInv, Order, Receipts, MintConfig, rows, net, agent
<1>6. Exchange' /\ CoreInv'
  BY <1>0, <1>1, <1>3 DEF SInv, Exchange, CoreInv, MintConfig, rows, net, agent
<1> QED BY <1>4, <1>5, <1>6 DEF SInv

LEMMA ReplyStep == ASSUME SInv, Respond PROVE SInv'
<1>0. serve # Idle /\ serve.stage = "roster"
  BY DEF Respond, Idle
<1> DEFINE b == [cred |-> serve.cred, min |-> stream.config.version]
           r == [stage |-> "reply", doc |-> stream', same |-> [n \in Names |-> Unchanged(n)]]
<1>1. MintStream("roster", b)
  BY DEF Respond
<1>2. b \in [cred : Creds, min : Nat \ {0}] /\ b.cred = serve.cred
  <2>1. "config" \in Names /\ stream \in Docs
    BY DEF SInv, STypeOK, Names
  <2>2. stream.config.version \in Nat \ {0}
    BY <1>0, <2>1, DocFacts DEF SInv, Exchange
  <2> QED BY <1>0, <2>2, ServingFacts
<1> HIDE DEF b
<1>3. stream' \in Docs /\ NoLater(stream, stream') /\ CredOf(stream'.roster) = serve.cred
  <2>1. "roster" \in Names /\ CredOf(stream.roster) <= b.cred
    BY <1>0, <1>2 DEF Names, SInv, Exchange
  <2>2. /\ stream' \in Docs /\ NoLater(stream, stream')
        /\ stream'["roster"].version # 0 /\ stream'["roster"].body = b
    BY <1>1, <1>2, <2>1, MintFacts DEF SInv
  <2> QED BY <1>2, <2>2 DEF CredOf
<1>4. reply' = reply \/ reply' = r
  BY DEF Respond
<1>5. r.doc = stream' /\ r # Idle /\ r \in [stage : {"reply"}, doc : Docs, same : [Names -> BOOLEAN]]
  BY <1>3 DEF Idle, Unchanged
<1> HIDE DEF r
<1>6. STypeOK'
  BY <1>3, <1>4, <1>5 DEF SInv, STypeOK, Respond, rows, agent
<1>7. NoLater(stream', stream')
  BY <1>3, NoLaterSelf
<1>8. Order'
  <2>1. reply' # Idle => NoLater(have, reply'.doc) /\ NoLater(reply'.doc, stream')
    BY <1>3, <1>4, <1>5, <1>7, MintKeepsOrder DEF SInv, Order
  <2> QED BY <1>3, <2>1, MintKeepsOrder DEF SInv, Order, Respond, rows, agent
<1>9. Receipts'
  BY <1>3, MintKeepsOrder DEF SInv, STypeOK, Receipts, Respond, rows, agent
<1>10. Exchange' /\ CoreInv'
  BY <1>0, <1>3 DEF SInv, Exchange, CoreInv, Respond, rows, agent
<1> QED BY <1>6, <1>8, <1>9, <1>10 DEF SInv

LEMMA AbortStep == ASSUME SInv, Abort PROVE SInv'
<1>1. STypeOK'
  <2>1. faults' \in 0..MaxFaults
    BY StreamsAssumption DEF SInv, STypeOK, Abort, Fault
  <2>2. request' \in [Slots -> Request \cup {Idle}] /\ serve' = Idle
    BY DEF SInv, STypeOK, Abort
  <2> QED BY <2>1, <2>2 DEF SInv, STypeOK, Abort, rows, agent
<1>2. Order' /\ CoreInv'
  BY DEF SInv, Order, CoreInv, Abort, rows, agent
<1>3. Receipts' /\ Exchange'
  BY DEF SInv, STypeOK, Receipts, Exchange, Abort, rows, agent
<1> QED BY <1>1, <1>2, <1>3 DEF SInv

LEMMA LoseStep == ASSUME SInv, Lose PROVE SInv'
<1>0. faults' \in 0..MaxFaults
  BY StreamsAssumption DEF SInv, STypeOK, Lose, Fault
<1>1. CoreInv'
  BY DEF SInv, CoreInv, Lose, rows, agent
<1>2. ASSUME NEW s \in Slots, request[s] # Idle, UNCHANGED reply,
             \/ ~Held(s) /\ request' = [request EXCEPT ![s] = Idle]
             \/ request' = [request EXCEPT ![s].waiting = FALSE]
      PROVE  SInv'
  <2> DEFINE r == [request[s] EXCEPT !.waiting = FALSE]
  <2>1. request[s] \in Request
    BY <1>2 DEF SInv, STypeOK
  <2>2. r \in Request /\ r # Idle /\ r.have = request[s].have /\ r.up = request[s].up
    BY <2>1 DEF Request, Idle
  <2>3. (~Held(s) /\ request' = [request EXCEPT ![s] = Idle]) \/ request' = [request EXCEPT ![s] = r]
    BY <1>2
  <2> HIDE DEF r
  <2>4. STypeOK'
    BY <1>0, <1>2, <2>2, <2>3 DEF SInv, STypeOK, Lose, rows, agent
  <2>5. \A u \in Slots : \/ request'[u] = request[u]
                         \/ u = s /\ ((request'[u] = Idle /\ ~Held(s)) \/ request'[u] = r)
    BY <2>3 DEF SInv, STypeOK
  <2>6. Order' /\ Receipts'
    BY <1>2, <2>2, <2>5 DEF SInv, Order, Receipts, Lose, rows, agent
  <2>7. serve # Idle => serve.slot \in Slots
    BY DEF SInv, STypeOK, Serving
  <2>8. Exchange'
    BY <2>2, <2>5, <2>7 DEF SInv, Exchange, Held, Lose, rows
  <2> QED BY <1>1, <2>4, <2>6, <2>8 DEF SInv
<1>3. CASE reply # Idle /\ reply' = Idle /\ UNCHANGED request
  <2>1. STypeOK'
    BY <1>0, <1>3 DEF SInv, STypeOK, Lose, rows, agent
  <2> QED BY <1>1, <1>3, <2>1 DEF SInv, Order, Receipts, Exchange, Lose, rows, agent
<1> QED BY <1>2, <1>3 DEF Lose

\* The agent's documents move forward, so no receipt is taken back.
LEMMA CoreMoves ==
  ASSUME SInv, UNCHANGED <<rows, stream, request, serve>>, have' \in Docs, core' \in Docs,
         ran \subseteq ran', STypeOK', Order', CredOf(core.roster) <= CredOf(core'.roster),
         core'.config.version # 0 => core'.config.body.intent \in ran'
  PROVE  SInv'
<1>1. /\ CredOf(core.roster) \in Nat /\ CredOf(core'.roster) \in Nat /\ client.applied \in Nat
      /\ \A s \in Slots : request[s] # Idle => CredOf(request[s].have.roster) \in Nat
  <2>1. core \in Docs /\ \A s \in Slots : request[s] # Idle => request[s].have \in Docs
    BY DEF SInv, STypeOK, Request
  <2> QED BY <2>1, DocFacts, StreamsAssumption DEF SInv, STypeOK
<1>2. CoreInv'
  BY <1>1 DEF SInv, CoreInv, rows
<1>3. Receipts'
  BY <1>1 DEF SInv, Receipts
<1>4. Exchange'
  BY DEF SInv, Exchange, rows
<1> QED BY <1>2, <1>3, <1>4 DEF SInv

LEMMA ReceiveStep == ASSUME SInv, Receive PROVE SInv'
<1>0. /\ reply # Idle /\ reply' = Idle /\ reply.doc \in Docs /\ have \in Docs /\ core \in Docs
      /\ stream \in Docs /\ NoLater(have, reply.doc) /\ NoLater(reply.doc, stream)
      /\ NoLater(core, have)
  BY DEF Receive, SInv, STypeOK, Order
<1>1. PICK keep \in [Names -> BOOLEAN] :
        have' = [n \in Names |-> IF reply.same[n] /\ keep[n] THEN have[n] ELSE reply.doc[n]]
  BY DEF Receive
<1> DEFINE k == [n \in Names |-> reply.same[n] /\ keep[n]]
<1>2. have' = [n \in Names |-> IF k[n] THEN have[n] ELSE reply.doc[n]]
  BY <1>1
<1> HIDE DEF k
<1>3. have' \in Docs /\ NoLater(have, have') /\ NoLater(have', reply.doc)
  BY <1>0, <1>2, MixedDocs
<1>4. NoLater(have', stream) /\ NoLater(core, have')
  BY <1>0, <1>3, NoLaterTrans
<1> DEFINE same == [n \in Names |-> ~(have[n] = core[n] /\ have'[n].body = core[n].body)]
<1>5. core' = [n \in Names |-> IF same[n] THEN core[n] ELSE have'[n]]
  BY DEF Receive
<1>6. ~same["config"] => have'.config.body = core.config.body
  BY DEF Names
<1>7. core'.config = core.config \/ (~same["config"] /\ core'.config = have'.config)
  BY <1>5 DEF Names
<1> HIDE DEF same
<1>8. core' \in Docs /\ NoLater(core, core') /\ NoLater(core', have')
  BY <1>0, <1>3, <1>4, <1>5, MixedDocs
<1>9. STypeOK'
  BY <1>0, <1>3, <1>8 DEF SInv, STypeOK, Receive, rows
<1>10. Order'
  BY <1>0, <1>4, <1>8 DEF Order, Receive
<1>11. CredOf(core.roster) <= CredOf(core'.roster)
  BY <1>8 DEF NoLater, NotAfter, Names
<1>12. core'.config.version # 0 => core'.config.body.intent \in ran
  <2>1. CASE core'.config = core.config
    BY <2>1 DEF SInv, CoreInv
  <2>2. CASE core'.config = have'.config /\ have'.config.body = core.config.body
    <3>1. CASE core.config.version # 0
      BY <2>2, <3>1 DEF SInv, CoreInv
    <3>2. CASE core.config.version = 0
      <4>1. core.config.body = [none |-> TRUE]
        <5>1. core["config"] = NoDoc
          BY <1>0, <3>2, DocFacts DEF Names
        <5>2. core.config = core["config"]
          OBVIOUS
        <5>3. NoDoc.body = [none |-> TRUE]
          BY DEF NoDoc
        <5> QED BY <5>1, <5>2, <5>3
      <4>2. have'.config.version = 0
        <5>1. [none |-> TRUE] \notin [intent : Intents]
          OBVIOUS
        <5>2. have'.config.version # 0 => have'.config.body \in [intent : Intents]
          BY <1>3, DocFacts
        <5>3. have'.config.body = [none |-> TRUE]
          BY <2>2, <4>1
        <5> QED BY <5>1, <5>2, <5>3
      <4> QED BY <2>2, <4>2
    <3> QED BY <3>1, <3>2
  <2> QED BY <1>6, <1>7, <2>1, <2>2
<1> QED BY <1>3, <1>8, <1>9, <1>10, <1>11, <1>12, CoreMoves DEF Receive

LEMMA ApplyStep == ASSUME SInv, NEW n \in Names, Apply(n) PROVE SInv'
<1>1. /\ have \in Docs /\ core \in Docs /\ NoLater(core, have)
      /\ have[n] # core[n] /\ core' = [core EXCEPT ![n] = have[n]]
  BY DEF Apply, SInv, STypeOK, Order
<1>2. have[n].version # 0
  <2>1. core[n].version \in Nat /\ have[n].version \in Nat /\ NotAfter(n, core[n], have[n])
    BY <1>1, DocFacts DEF NoLater
  <2> QED BY <1>1, <2>1 DEF NotAfter
<1> DEFINE k == [m \in Names |-> m # n]
<1>3. core' = [m \in Names |-> IF k[m] THEN core[m] ELSE have[m]]
  BY <1>1 DEF Docs, Names
<1> HIDE DEF k
<1>4. core' \in Docs /\ NoLater(core, core') /\ NoLater(core', have)
  <2> DEFINE m == [i \in Names |-> IF k[i] THEN core[i] ELSE have[i]]
  <2>1. m \in Docs /\ NoLater(core, m) /\ NoLater(m, have)
    BY <1>1, MixedDocs
  <2>2. core' = m
    BY <1>3
  <2> QED BY <2>1, <2>2
<1>5. ran' \subseteq Intents /\ ran \subseteq ran'
  <2>1. CASE n = "config"
    BY <1>1, <1>2, <2>1, DocFacts DEF Apply, SInv, STypeOK
  <2>2. CASE n # "config"
    BY <2>2 DEF Apply, SInv, STypeOK
  <2> QED BY <2>1, <2>2
<1>6. STypeOK'
  BY <1>4, <1>5 DEF SInv, STypeOK, Apply, rows, net
<1>7. Order'
  BY <1>4 DEF SInv, Order, Apply, net
<1>8. CredOf(core.roster) <= CredOf(core'.roster)
  BY <1>4 DEF NoLater, NotAfter, Names
<1>9. core'.config.version # 0 => core'.config.body.intent \in ran'
  <2>1. CASE n = "config"
    BY <1>1, <2>1 DEF Apply, Docs
  <2>2. CASE n # "config"
    <3>1. core'.config = core.config /\ ran' = ran
      BY <1>1, <2>2 DEF Apply, Docs
    <3> QED BY <3>1 DEF SInv, CoreInv
  <2> QED BY <2>1, <2>2
<1> QED BY <1>1, <1>4, <1>5, <1>6, <1>7, <1>8, <1>9, CoreMoves DEF Apply, net
-----------------------------------------------------------------------------
LEMMA StepInv == SInv /\ [SNext]_svars => SInv'
<1> SUFFICES ASSUME SInv, [SNext]_svars PROVE SInv'
  OBVIOUS
<1>1. CASE (\E i \in Intents : EditIntent(i)) \/ MarkPending \/ Rotate
  BY <1>1, EditSteps
<1>2. CASE \E s \in Slots : Begin(s) \/ \E full \in BOOLEAN : Send(s, full)
  BY <1>2, BeginStep, SendStep
<1>3. CASE ServeStep
  BY <1>3, ClientStep, NodeStep, ConfigStep, ReplyStep DEF ServeStep
<1>4. CASE Abort \/ Lose
  BY <1>4, AbortStep, LoseStep
<1>5. CASE Receive \/ \E n \in Names : Apply(n)
  BY <1>5, ReceiveStep, ApplyStep
<1>6. CASE UNCHANGED svars
  BY <1>6 DEF svars, rows, net, agent, SInv, STypeOK, Order, Receipts, Exchange, CoreInv
<1> QED BY <1>1, <1>2, <1>3, <1>4, <1>5, <1>6 DEF SNext

LEMMA StreamsAlways == ASSUME "restored" \notin Starts PROVE SSpec => []SInv
BY InitInv, StepInv, PTL DEF SSpec

\* The rows, the documents and the messages keep their shape.
THEOREM StreamsTypeCorrect == ASSUME "restored" \notin Starts PROVE SSpec => []STypeOK
BY StreamsAlways, PTL DEF SInv

\* Without a restore no report is ever refused, however late the request it is
\* in is served (RecordApplied): what the agent holds was minted before.
THEOREM ReportsAlwaysAccepted ==
  ASSUME "restored" \notin Starts PROVE SSpec => []ReportsAccepted
<1>1. SInv => ReportsAccepted
  <2> SUFFICES ASSUME SInv, NEW s \in Slots, request[s] # Idle, NEW n \in Names
               PROVE  /\ ~(request[s].have[n].version > stream[n].version)
                      /\ request[s].have[n].version = stream[n].version
                            => request[s].have[n].body = stream[n].body
    BY DEF ReportsAccepted, Refused
  <2>1. request[s].have \in Docs /\ stream \in Docs
    BY DEF SInv, STypeOK, Request
  <2>2. NotAfter(n, request[s].have[n], stream[n])
    BY DEF SInv, Receipts, NoLater
  <2> QED BY <2>1, <2>2, DocFacts DEF NotAfter
<1> QED BY <1>1, StreamsAlways, PTL

\* The credential on record, which subscriptions carry, is one the core serves
\* or an older one (ReconcileClients): receipts for old documents, late
\* requests and rotations in between do not put it ahead.
THEOREM AppliedNeverAhead == ASSUME "restored" \notin Starts PROVE SSpec => []NeverAhead
<1>1. SInv => NeverAhead
  <2> SUFFICES ASSUME SInv, client.applied # 0
               PROVE  core.roster # NoDoc /\ client.applied <= core.roster.body.cred
    BY DEF NeverAhead
  <2>1. core \in Docs /\ client.applied \in Nat /\ client.applied <= CredOf(core.roster)
    BY StreamsAssumption DEF SInv, STypeOK, CoreInv
  <2>2. core.roster.version # 0
    BY <2>1 DEF CredOf
  <2> QED BY <2>1, <2>2 DEF CredOf, NoDoc
<1> QED BY <1>1, StreamsAlways, PTL

\* An exchange marks the row synced only for an intent the core has run
\* (ConfirmNodes): the row is compared again under its lock.
THEOREM ConfirmedAlwaysRan == ASSUME "restored" \notin Starts PROVE SSpec => ConfirmedWasRun
<1>1. SInv /\ [SNext]_svars =>
        (serve' # serve /\ node'.state = "synced" /\ node.state # "synced" => node'.intent \in ran)
  <2> SUFFICES ASSUME SInv, [SNext]_svars, serve' # serve,
                      node'.state = "synced", node.state # "synced"
               PROVE  node'.intent \in ran
    OBVIOUS
  <2>1. ConfirmNodes
    BY DEF SNext, svars, rows, net, agent, ServeStep, EditIntent, MarkPending, Rotate, Begin, Send,
           ReconcileClients, MintConfig, Respond, Abort, Lose, Receive, Apply
  <2>2. /\ CurrentReceipt("config") /\ Req.up.config /\ stream.config.body.intent = serve.intent
        /\ node'.intent = serve.intent
    BY <2>1 DEF ConfirmNodes, ConfirmAppliedConfig, SInv, STypeOK
  <2>3. serve # Idle
    BY <2>1 DEF ConfirmNodes, Idle
  <2>4. Req.have.config.body.intent \in ran
    BY <2>2, <2>3, ServingFacts DEF SInv, Receipts, Exchange, Req
  <2> QED BY <2>2, <2>4 DEF CurrentReceipt
<1> QED BY <1>1, StreamsAlways, PTL DEF SSpec, ConfirmedWasRun
=============================================================================
