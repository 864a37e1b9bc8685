----------------------------- MODULE NodeStreams -----------------------------
(***************************************************************************)
(* The configuration half of the native exchange: how the intent of a      *)
(* listener and the credential of a client reach an agent, and how the     *)
(* control plane learns that they did (nodesync.go, node_agent_repo.go).   *)
(*                                                                         *)
(* Each exchange runs under the agent's lock: load the desired snapshot in *)
(* one transaction, record what the agent reports it has, confirm rows     *)
(* from a full report, mint a version for every document whose content     *)
(* changed, reply with the documents the agent does not hold.  Admins edit *)
(* the rows meanwhile.  The agent (another repository) is modelled as the  *)
(* exchange relies on it; of its three documents the directives, which no  *)
(* row waits for, are left out.  A document is identified by its content:  *)
(* the etag is its digest.  The epoch is that of the agent's creation,     *)
(* since nothing raises it.                                                *)
(***************************************************************************)
EXTENDS Naturals

CONSTANTS
  Intents,     \* configurations of the listener
  First,       \* the one it is created with
  MaxCred,     \* bound on credential rotations; every rotation is a new value
  MaxEdits,    \* bound on the admin's edits
  MaxFaults,   \* bound on failed exchanges, lost and abandoned messages
  Slots,       \* how many requests of the agent the server may hold
  Starts       \* "fresh": a new agent; "restored": a database behind its agent

ASSUME StreamsAssumption ==
  /\ First \in Intents /\ MaxCred \in Nat \ {0} /\ MaxEdits \in Nat /\ MaxFaults \in Nat
  /\ Starts \subseteq {"fresh", "restored"}

VARIABLES
  node,     \* the listener's row: intent and sync state
  handler,  \* an edit between its two writes
  client,   \* the client's row and its attachment: credential, applied credential
  stream,   \* node_agent_streams: the minted version and body of each document
  request,  \* the sync requests the server holds
  serve,    \* the exchange that holds the agent's lock
  reply,    \* the reply on its way back
  have,     \* the documents the agent holds
  core,     \* the documents its core runs
  ran,      \* every intent the core has run (history)
  edits, faults

rows    == <<node, handler, client, edits>>
net     == <<request, reply, faults>>
agent   == <<have, core, ran>>
svars   == <<rows, stream, serve, net, agent>>
-----------------------------------------------------------------------------
Creds   == 1..MaxCred
NoDoc   == [version |-> 0, body |-> [none |-> TRUE]]
Config  == [version : Nat \ {0}, body : [intent : Intents]]
Roster  == [version : Nat \ {0}, body : [cred : Creds, min : Nat \ {0}]]  \* MinConfigVersion
Docs    == [config : Config \cup {NoDoc}, roster : Roster \cup {NoDoc}]
Names   == {"config", "roster"}

Idle    == [stage |-> "idle"]
Request == [stage : {"sent"}, waiting : BOOLEAN, full : BOOLEAN, have : Docs, up : [Names -> BOOLEAN]]
Stages  == {"clients", "nodes", "config", "roster"}
Serving == [stage : Stages, slot : Slots, intent : Intents, cred : Creds]

STypeOK ==
  /\ node \in [intent : Intents, state : {"pending", "synced"}]
  /\ handler \in [intent : Intents] \cup {Idle}
  /\ client \in [cred : Creds, applied : 0..MaxCred, state : {"pending", "applied"}]
  /\ stream \in Docs /\ have \in Docs /\ core \in Docs
  /\ request \in [Slots -> Request \cup {Idle}] /\ serve \in Serving \cup {Idle}
  /\ reply = Idle \/ reply \in [stage : {"reply"}, doc : Docs, same : [Names -> BOOLEAN]]
  /\ ran \subseteq Intents /\ edits \in 0..MaxEdits /\ faults \in 0..MaxFaults
-----------------------------------------------------------------------------
\* The admin's edit of a native node: written as synced, then marked pending,
\* because the agent applies it later.
EditIntent(i) ==
  /\ handler = Idle /\ edits < MaxEdits /\ edits' = edits + 1
  /\ node' = [intent |-> i, state |-> "synced"]
  /\ handler' = [intent |-> i]
  /\ UNCHANGED <<client, stream, serve, net, agent>>

MarkPending ==
  /\ handler # Idle /\ handler' = Idle
  /\ node' = [intent |-> handler.intent, state |-> "pending"]
  /\ UNCHANGED <<client, edits, stream, serve, net, agent>>

\* UpdateDefinition changes the credential; what is applied stays on record.
Rotate ==
  /\ client.cred < MaxCred /\ client' = [client EXCEPT !.cred = @ + 1]
  /\ UNCHANGED <<node, handler, edits, stream, serve, net, agent>>
-----------------------------------------------------------------------------
\* The agent reports what it holds and, in a full report, what its core runs.
Waiting == reply # Idle \/ \E s \in Slots : request[s] # Idle /\ request[s].waiting
Send(s, full) ==
  /\ ~Waiting /\ request[s] = Idle
  /\ request' = [request EXCEPT ![s] =
       [stage |-> "sent", waiting |-> TRUE, full |-> full, have |-> have,
        up |-> [n \in Names |-> full /\ have[n] # NoDoc /\ core[n] = have[n]]]]
  /\ UNCHANGED <<rows, stream, serve, reply, faults, agent>>

\* The agent may be behind, never ahead, and a version has one content.
Refused(docs) ==
  \E n \in Names : \/ docs[n].version > stream[n].version
                   \/ docs[n].version = stream[n].version /\ docs[n].body # stream[n].body

Held(s) == serve # Idle /\ serve.slot = s
Req     == request[serve.slot]
Goto(p) == serve' = [serve EXCEPT !.stage = p]

\* One exchange at a time per agent, whatever order the requests arrived in:
\* take the snapshot, then RecordApplied, which ends the exchange with an error
\* when it refuses.  (It reads streams only, which no other step writes.)
Begin(s) ==
  /\ serve = Idle /\ request[s] # Idle
  /\ IF Refused(request[s].have)
     THEN request' = [request EXCEPT ![s] = Idle] /\ UNCHANGED serve
     ELSE /\ serve' = [stage |-> IF request[s].full THEN "clients" ELSE "config",
                       slot |-> s, intent |-> node.intent, cred |-> client.cred]
          /\ UNCHANGED request
  /\ UNCHANGED <<rows, stream, reply, faults, agent>>

\* A receipt counts only for the current document.
\* Slip: a full report from any document counts.
AnyReceipt(n)     == stream[n] # NoDoc
CurrentReceipt(n) == stream[n] # NoDoc /\ Req.have[n].body = stream[n].body

\* Slip: an attachment already applied is left alone.
ReconcilePending ==
  /\ serve.stage = "clients" /\ Goto("nodes")
  /\ client' = IF /\ CurrentReceipt("roster") /\ stream.roster.body.cred = serve.cred
                  /\ Req.up.roster /\ client.state = "pending"
               THEN [client EXCEPT !.applied = serve.cred, !.state = "applied"] ELSE client
  /\ UNCHANGED <<node, handler, edits, stream, net, agent>>

\* UpdateInboundState: the credential of the applied document, when the
\* snapshot still asks for the same client.
ReconcileClients ==
  /\ serve.stage = "clients" /\ Goto("nodes")
  /\ client' = IF CurrentReceipt("roster") /\ stream.roster.body.cred = serve.cred
               THEN IF Req.up.roster
                    THEN [client EXCEPT !.applied = serve.cred, !.state = "applied"]
                    ELSE [client EXCEPT !.state = "pending"]
               ELSE client
  /\ UNCHANGED <<node, handler, edits, stream, net, agent>>

\* ConfirmAppliedConfig compares with the row as it is now, under its lock.
\* Slip: the snapshot's comparison is trusted.
ConfirmAnyRow(i) == [node EXCEPT !.state = "synced"]
ConfirmAppliedConfig(i) == IF node.intent = i THEN [node EXCEPT !.state = "synced"] ELSE node

ConfirmNodes ==
  /\ serve.stage = "nodes" /\ Goto("config")
  /\ node' = IF /\ CurrentReceipt("config") /\ Req.up.config
                /\ stream.config.body.intent = serve.intent
             THEN ConfirmAppliedConfig(serve.intent) ELSE node
  /\ UNCHANGED <<handler, client, edits, stream, net, agent>>

\* MintStream: a version for new content, none for the content it has.
\* Slip: the version stays.
MintInPlace(n, b) ==
  stream' = [stream EXCEPT ![n].body = b, ![n].version = IF @ = 0 THEN 1 ELSE @]
MintStream(n, b) ==
  stream' = IF stream[n].body = b THEN stream
            ELSE [stream EXCEPT ![n] = [version |-> @.version + 1, body |-> b]]

\* Slip: the roster is minted before the config it asks for.
SkipConfig == serve.stage = "config" /\ Goto("roster") /\ UNCHANGED <<rows, stream, net, agent>>
MintConfig ==
  /\ serve.stage = "config" /\ MintStream("config", [intent |-> serve.intent]) /\ Goto("roster")
  /\ UNCHANGED <<rows, net, agent>>

\* segmentFor: a document the agent holds is not sent again.
Unchanged(n) == Req.have[n] # NoDoc /\ Req.have[n].body = stream'[n].body

\* The roster is minted against the config version, and the reply goes out.
Respond ==
  /\ serve.stage = "roster" /\ serve' = Idle
  /\ MintStream("roster", [cred |-> serve.cred, min |-> stream.config.version])
  /\ reply' = IF Req.waiting
              THEN [stage |-> "reply", doc |-> stream', same |-> [n \in Names |-> Unchanged(n)]]
              ELSE reply
  /\ request' = [request EXCEPT ![serve.slot] = Idle]
  /\ UNCHANGED <<rows, faults, agent>>

\* The handler fails at any point, the request or the reply is lost, or the
\* agent stops waiting while the server still holds the request.
Fault == faults < MaxFaults /\ faults' = faults + 1
Abort ==
  /\ Fault /\ serve # Idle /\ serve' = Idle /\ request' = [request EXCEPT ![serve.slot] = Idle]
  /\ UNCHANGED <<rows, stream, reply, agent>>
Lose ==
  /\ Fault
  /\ \/ \E s \in Slots :
          /\ request[s] # Idle /\ UNCHANGED reply
          /\ \/ ~Held(s) /\ request' = [request EXCEPT ![s] = Idle]
             \/ request[s].waiting /\ request' = [request EXCEPT ![s].waiting = FALSE]
     \/ reply # Idle /\ reply' = Idle /\ UNCHANGED request
  /\ UNCHANGED <<rows, stream, serve, agent>>

\* The agent commits what it was sent; an unchanged document may take its new
\* version or keep the old one.  Then its core takes the document up.
Receive ==
  /\ reply # Idle /\ reply' = Idle
  /\ \E keep \in [Names -> BOOLEAN] :
       have' = [n \in Names |-> IF reply.same[n] /\ keep[n] THEN have[n] ELSE reply.doc[n]]
  \* what the core runs keeps its content, whatever version it goes by
  /\ core' = [n \in Names |-> IF have[n] = core[n] /\ have'[n].body = core[n].body
                              THEN have'[n] ELSE core[n]]
  /\ UNCHANGED <<rows, stream, request, serve, faults, ran>>

Apply(n) ==
  /\ have[n] # core[n] /\ core' = [core EXCEPT ![n] = have[n]]
  /\ ran' = IF n = "config" THEN ran \cup {have[n].body.intent} ELSE ran
  /\ UNCHANGED <<rows, stream, serve, net, have>>
-----------------------------------------------------------------------------
Version(k, i) == [config |-> [version |-> k, body |-> [intent |-> i]],
                  roster |-> [version |-> k, body |-> [cred |-> 1, min |-> k]]]
Empty == [n \in Names |-> NoDoc]

SInit ==
  /\ node = [intent |-> First, state |-> "pending"]
  /\ handler = Idle /\ edits = 0 /\ faults = 0
  /\ request = [s \in Slots |-> Idle] /\ serve = Idle /\ reply = Idle
  /\ \/ /\ "fresh" \in Starts /\ stream = Empty /\ have = Empty /\ core = Empty /\ ran = {}
        /\ client = [cred |-> 1, applied |-> 0, state |-> "pending"]
     \/ \* restored to the first version; the agent has the second
        /\ "restored" \in Starts /\ stream = Version(1, node.intent)
        /\ \E i \in Intents \ {node.intent} :
             have = Version(2, i) /\ core = have /\ ran = {node.intent, i}
        /\ client = [cred |-> 1, applied |-> 1, state |-> "applied"]

ServeStep == ReconcileClients \/ ConfirmNodes \/ MintConfig \/ Respond
SNext ==
  \/ \E i \in Intents : EditIntent(i)
  \/ MarkPending \/ Rotate
  \/ \E s \in Slots : Begin(s) \/ \E full \in BOOLEAN : Send(s, full)
  \/ ServeStep \/ Abort \/ Lose \/ Receive \/ \E n \in Names : Apply(n)

SSpec == SInit /\ [][SNext]_svars

\* The agent polls for ever, with a full report now and then, and takes up what
\* it holds; the handler and the exchange run to their end unless they fail.
SFair ==
  /\ WF_svars(MarkPending) /\ WF_svars(ServeStep)
  /\ WF_svars(\E s \in Slots, full \in BOOLEAN : Send(s, full))
  /\ SF_svars(\E s \in Slots : Send(s, TRUE))
  /\ \A s \in Slots : SF_svars(Begin(s))
  /\ WF_svars(Receive) /\ \A n \in Names : WF_svars(Apply(n))
SLiveSpec == SSpec /\ SFair
-----------------------------------------------------------------------------
\* No report of an agent that only took what it was sent is refused, however
\* late the report is served: a refused report ends the exchange before
\* anything is sent, and would do so for ever.
ReportsAccepted ==
  \A s \in Slots : request[s] # Idle /\ ~Held(s) => ~Refused(request[s].have)

\* Subscriptions carry the recorded credential; the agent serves it before it
\* is recorded, and never an older one afterwards.
NeverAhead == client.applied # 0 => core.roster # NoDoc /\ client.applied <= core.roster.body.cred

\* An exchange calls a row synced only for an intent the core has run: neither
\* a heartbeat nor a receipt for something else clears a newer intent.
ConfirmedWasRun ==
  [][serve' # serve /\ node'.state = "synced" /\ node.state # "synced" => node'.intent \in ran]_svars

\* When edits and rotations end, the core runs what the rows ask for and the
\* rows say so, whatever was lost or failed on the way.
Converges ==
  <>[](/\ core.config # NoDoc /\ core.config.body.intent = node.intent /\ node.state = "synced"
       /\ client.applied = client.cred)
=============================================================================
