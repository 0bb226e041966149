--------------------------- MODULE BufferImports ---------------------------
(***************************************************************************)
(* Making a wl_buffer of dma-bufs (src/protocol/zwp_linux_dmabuf.rs,       *)
(* src/protocol/zwp_linux_buffer_params.rs and the DmabufImportResult arm  *)
(* of src/run.rs), for one client.                                         *)
(*                                                                         *)
(* A params object collects planes and is used once.  What can be checked  *)
(* at once is; the rest only the backend knows, which is asked through a   *)
(* bounded channel and answers later, when the params, the buffer, or the  *)
(* client may be gone and the buffer's id may name another buffer.         *)
(*                                                                         *)
(* The i-th import is the token i.  A buffer's `import' is the token it was*)
(* made for, Refused if nobody had to be asked, and None for a buffer of   *)
(* shared memory.                                                          *)
(***************************************************************************)
EXTENDS Naturals, Sequences, FiniteSets, Functions

CONSTANTS Params,             \* the ids the client uses for params objects
          Ids,                \* the ids it uses for its wl_buffers
          MAX_DMABUF_PLANES,
          MAX_LIVE_PARAMS,
          QueueSize,          \* requests the channel to the backend holds
          MaxServerIds,       \* names the compositor has for a client's objects
          MaxImports,         \* bound: imports asked for
          MaxSerial,          \* bound: buffers ever registered
          None

VARIABLES
  client,      \* "live", "cancelled" once an error was sent, "gone"
  params,      \* state.dmabuf_params: used and the planes set, None for no object
  named,       \* the ids in Ids that client.objects has
  buffers,     \* state.buffers: a function on the ids of the buffers there are
  nextSerial,  \* state.next_content_serial
  nextToken,   \* state.next_import_token
  pending,     \* state.pending_dmabuf_imports, by token
  requests,    \* the channel to the backend
  answers,     \* the channel back: token and imported
  nextServer,  \* ClientState::next_server_id
  \* What has happened:
  asked,       \* the request a params object has made: "create", "create_immed"
  told,        \* the events it was sent
  verdict,     \* the answers that have come, by token
  abandoned    \* the tokens whose params object was destroyed before the answer

channel == <<requests, answers>>
vars == <<client, params, named, buffers, nextSerial, nextToken, pending, channel,
          nextServer, asked, told, verdict, abandoned>>

\* What the constants are: bounds, and ids of the client's, which are no ids of
\* the server's.
ImportsAssumption ==
  /\ MaxImports \in Nat /\ MaxSerial \in Nat \ {0} /\ QueueSize \in Nat
  /\ MAX_DMABUF_PLANES \in Nat /\ MaxServerIds \in Nat
  /\ Ids \cap Nat = {}           \* SERVER_ID_BASE, src/state/client_state.rs
  /\ None \notin Ids \cup Nat \cup BOOLEAN \cup {"create", "create_immed"}
  /\ None \notin [used : BOOLEAN, planes : SUBSET Nat]

Refused == 0
Tokens == 1 .. MaxImports
Live == {p \in Params : params[p] # None}
NothingOn == [t \in {} |-> None]

Init ==
  /\ client = "live"
  /\ params = [p \in Params |-> None]
  /\ named = {}
  /\ buffers = NothingOn
  /\ nextSerial = 1
  /\ nextToken = 1
  /\ pending = NothingOn
  /\ requests = << >>
  /\ answers = << >>
  /\ nextServer = 1
  /\ asked = [p \in Params |-> None]
  /\ told = [p \in Params |-> << >>]
  /\ verdict = [t \in Tokens |-> None]
  /\ abandoned = {}

With(f, x, y) == [z \in DOMAIN f \cup {x} |-> IF z = x THEN y ELSE f[z]]
Without(f, xs) == Restrict(f, DOMAIN f \ xs)

-----------------------------------------------------------------------------
(* Describing a buffer.                                                    *)

\* send_error and fatal: the client is on its way out, and what it has already
\* sent is still handled.
Fatal == client' = "cancelled"

\* zwp_linux_dmabuf_v1.create_params.
CreateParams(p) ==
  /\ client # "gone" /\ params[p] = None
  /\ \/ /\ Cardinality(Live) >= MAX_LIVE_PARAMS
        /\ Fatal
        /\ UNCHANGED params
     \/ /\ Cardinality(Live) < MAX_LIVE_PARAMS
        /\ params' = [params EXCEPT ![p] = [used |-> FALSE, planes |-> {}]]
        /\ UNCHANGED client
  /\ UNCHANGED <<named, buffers, nextSerial, nextToken, pending, channel, nextServer, asked,
                 told, verdict, abandoned>>

\* add: each plane once, and before the object is used.
Add(p, index) ==
  /\ client # "gone" /\ params[p] # None
  /\ LET legal == ~ params[p].used /\ index < MAX_DMABUF_PLANES /\ index \notin params[p].planes
     IN \/ /\ legal
           /\ params' = [params EXCEPT ![p].planes = @ \cup {index}]
           /\ UNCHANGED client
        \/ ~ legal /\ Fatal /\ UNCHANGED params
  /\ UNCHANGED <<named, buffers, nextSerial, nextToken, pending, channel, nextServer, asked,
                 told, verdict, abandoned>>

PendingOf(p) == {t \in DOMAIN pending : pending[t].params = p}

\* destroy: nobody is left to report to, so a pending import is forgotten.
Destroy(p) ==
  /\ client # "gone" /\ params[p] # None
  /\ params' = [params EXCEPT ![p] = None]
  /\ pending' = Without(pending, PendingOf(p))
  /\ asked' = [asked EXCEPT ![p] = None]
  /\ told' = [told EXCEPT ![p] = << >>]
  /\ abandoned' = abandoned \cup PendingOf(p)
  /\ UNCHANGED <<client, named, buffers, nextSerial, nextToken, channel, nextServer, verdict>>

\* Planes run from zero with no gaps.
Complete(planes) == planes # {} /\ \A i \in planes : 0 .. i \subseteq planes

-----------------------------------------------------------------------------
(* Asking for the buffer.                                                  *)

Dmabuf(serial, token) == [kind |-> "dmabuf", serial |-> serial, import |-> token]
FailedBuffer(serial) == [kind |-> "failed", serial |-> serial, import |-> Refused]

\* refuse: a create_immed has its buffer, which draws nothing.
Refuse(p, id, serial, registered) ==
  /\ told' = [told EXCEPT ![p] = Append(@, "failed")]
  /\ buffers' = IF id = None THEN registered ELSE With(registered, id, FailedBuffer(serial))
  /\ nextSerial' = IF id = None THEN serial ELSE serial + 1

\* Mutant: a full channel is found out and the client is told nothing.
ForgetUndelivered(p, id, serial, registered) ==
  /\ buffers' = registered
  /\ nextSerial' = serial
  /\ UNCHANGED told

\* handle_create when the request to the backend could not be sent.
Undelivered(p, id, serial, registered) == Refuse(p, id, serial, registered)

(***************************************************************************)
(* create (id is None) and create_immed, for an offer that is "good",      *)
(* "unknown" (flags, or a format never advertised) or "misfit" (dimensions,*)
(* modifiers that differ, a plane past the end of its descriptor).         *)
(***************************************************************************)
Create(p, id, offer) ==
  /\ client # "gone" /\ params[p] # None
  /\ nextToken \in Tokens /\ nextSerial + 1 < MaxSerial
  /\ UNCHANGED <<answers, nextServer, verdict, abandoned>>
  /\ \/ /\ id \in named                           \* the id is in use
        /\ Fatal
        /\ UNCHANGED <<params, named, buffers, nextSerial, nextToken, pending, requests, asked,
                       told>>
     \/ /\ id \notin named
        /\ named' = named \cup ({id} \ {None})
        /\ params' = [params EXCEPT ![p].used = TRUE]
        /\ \/ /\ params[p].used \/ ~ Complete(params[p].planes) \/ offer = "misfit"
              /\ Fatal
              /\ UNCHANGED <<buffers, nextSerial, nextToken, pending, requests, asked, told>>
           \/ /\ ~ params[p].used /\ Complete(params[p].planes) /\ offer # "misfit"
              /\ asked' = [asked EXCEPT ![p] = IF id = None THEN "create" ELSE "create_immed"]
              /\ UNCHANGED client
              /\ \/ /\ offer = "unknown"
                    /\ Refuse(p, id, nextSerial, buffers)
                    /\ UNCHANGED <<nextToken, pending, requests>>
                 \/ /\ offer = "good"
                    /\ nextToken' = nextToken + 1
                    /\ LET immediate == id # None
                           serial == IF immediate THEN nextSerial + 1 ELSE nextSerial
                           registered == IF immediate
                                         THEN With(buffers, id, Dmabuf(nextSerial, nextToken))
                                         ELSE buffers
                       IN \/ /\ Len(requests) < QueueSize
                             /\ requests' = Append(requests, nextToken)
                             /\ pending' = With(pending, nextToken,
                                  [params |-> p, id |-> id, serial |-> nextSerial])
                             /\ buffers' = registered
                             /\ nextSerial' = serial
                             /\ UNCHANGED told
                          \/ /\ Len(requests) >= QueueSize
                             /\ Undelivered(p, id, serial, registered)
                             /\ UNCHANGED <<pending, requests>>

-----------------------------------------------------------------------------
(* The verdict.                                                            *)

\* The backend (outside src/) tries the import.
Answer(imported) ==
  /\ requests # << >>
  /\ requests' = Tail(requests)
  /\ answers' = Append(answers, [token |-> Head(requests), imported |-> imported])
  /\ UNCHANGED <<client, params, named, buffers, nextSerial, nextToken, pending, nextServer,
                 asked, told, verdict, abandoned>>

\* Mutant: whatever holds the id now is what the verdict is about.
HoldsTheId(import) == import.id \in DOMAIN buffers

\* The buffer a create_immed made is still the one under its id.
StillIts(import) ==
  import.id \in DOMAIN buffers /\ buffers[import.id].serial = import.serial

\* send_failed: nothing, if the params object is gone.
SendFailed(p) ==
  told' = IF params[p] = None THEN told ELSE [told EXCEPT ![p] = Append(@, "failed")]

\* resolve_import; a buffer made of a create is named by the compositor, which may
\* have run out of names (register_server_object).
Resolve(token, imported) ==
  /\ pending' = Without(pending, {token})
  /\ \/ /\ token \notin DOMAIN pending
        /\ UNCHANGED <<buffers, nextSerial, nextServer, told>>
     \/ /\ token \in DOMAIN pending
        /\ LET import == pending[token]
               immediate == import.id # None
           IN \/ /\ immediate /\ (imported \/ ~ StillIts(import))
                 /\ UNCHANGED <<buffers, nextSerial, nextServer, told>>
              \/ /\ immediate /\ ~ imported /\ StillIts(import)
                 /\ buffers' = [buffers EXCEPT ![import.id].kind = "failed"]
                 /\ SendFailed(import.params)
                 /\ UNCHANGED <<nextSerial, nextServer>>
              \/ /\ ~ immediate /\ (~ imported \/ nextServer > MaxServerIds)
                 /\ SendFailed(import.params)
                 /\ UNCHANGED <<buffers, nextSerial, nextServer>>
              \/ /\ ~ immediate /\ imported /\ nextServer <= MaxServerIds
                 /\ told' = [told EXCEPT ![import.params] = Append(@, "created")]
                 /\ buffers' = With(buffers, nextServer, Dmabuf(nextSerial, token))
                 /\ nextSerial' = nextSerial + 1
                 /\ nextServer' = nextServer + 1

\* BackendMessage::DmabufImportResult.
Verdict ==
  /\ answers # << >>
  /\ answers' = Tail(answers)
  /\ verdict' = [verdict EXCEPT ![Head(answers).token] = Head(answers).imported]
  /\ Resolve(Head(answers).token, Head(answers).imported)
  /\ UNCHANGED <<client, params, named, nextToken, requests, asked, abandoned>>

-----------------------------------------------------------------------------
(* The ids of buffers.                                                     *)

\* wl_buffer.destroy.
DestroyBuffer(id) ==
  /\ client # "gone" /\ id \in DOMAIN buffers
  /\ buffers' = Without(buffers, {id})
  /\ named' = named \ {id}
  /\ UNCHANGED <<client, params, nextSerial, nextToken, pending, channel, nextServer, asked,
                 told, verdict, abandoned>>

\* register_buffer: a buffer of shared memory takes the id.
CreateShm(id) ==
  /\ client # "gone" /\ id \notin named
  /\ nextSerial + 1 < MaxSerial
  /\ named' = named \cup {id}
  /\ buffers' = With(buffers, id, [kind |-> "shm", serial |-> nextSerial, import |-> None])
  /\ nextSerial' = nextSerial + 1
  /\ UNCHANGED <<client, params, nextToken, pending, channel, nextServer, asked, told,
                 verdict, abandoned>>

\* remove_client_resources.
Gone ==
  /\ client # "gone"
  /\ client' = "gone"
  /\ params' = [p \in Params |-> None]
  /\ named' = {}
  /\ buffers' = NothingOn
  /\ pending' = NothingOn
  /\ asked' = [p \in Params |-> None]
  /\ told' = [p \in Params |-> << >>]
  /\ UNCHANGED <<nextSerial, nextToken, channel, nextServer, verdict, abandoned>>

Next ==
  \/ \E p \in Params :
       \/ CreateParams(p) \/ Destroy(p)
       \/ \E index \in 0 .. MAX_DMABUF_PLANES : Add(p, index)
       \/ \E id \in Ids \cup {None}, offer \in {"good", "unknown", "misfit"} : Create(p, id, offer)
  \/ \E imported \in BOOLEAN : Answer(imported)
  \/ Verdict
  \/ \E id \in Ids \cup 1 .. MaxImports : DestroyBuffer(id)
  \/ \E id \in Ids : CreateShm(id)
  \/ Gone

Spec == Init /\ [][Next]_vars

-----------------------------------------------------------------------------
(* Properties.                                                             *)

Serials == 1 .. MaxSerial + MaxImports

TypeOK ==
  /\ client \in {"live", "cancelled", "gone"}
  /\ params \in [Params -> [used : BOOLEAN, planes : SUBSET (0 .. MAX_DMABUF_PLANES - 1)]
                             \cup {None}]
  /\ named \subseteq Ids
  /\ DOMAIN buffers \subseteq named \cup 1 .. MaxImports
  /\ Range(buffers) \subseteq [kind : {"dmabuf", "failed", "shm"}, serial : Serials,
                               import : Tokens \cup {Refused, None}]
  /\ nextSerial \in Serials /\ nextToken \in 1 .. MaxImports + 1
  /\ DOMAIN pending \subseteq Tokens
  /\ Range(pending) \subseteq [params : Live, id : Ids \cup {None}, serial : Serials]
  /\ Len(requests) <= QueueSize
  /\ asked \in [Params -> {None, "create", "create_immed"}]
  /\ \A p \in Params : Range(told[p]) \subseteq {"created", "failed"}
  /\ verdict \in [Tokens -> BOOLEAN \cup {None}]
  /\ abandoned \subseteq Tokens

UnderWay == Range(requests) \cup {answers[i].token : i \in DOMAIN answers}

\* A params object that asked for a buffer is told once what became of it, or
\* waits for a verdict that is on its way: a full channel leaves nobody waiting,
\* and a create_immed hears only of a failure (handle_create, refuse).
AnsweredOnce ==
  /\ DOMAIN pending \subseteq UnderWay
  /\ \A p \in Live :
       /\ Len(told[p]) + Cardinality(PendingOf(p)) <= 1
       /\ asked[p] = "create" => Len(told[p]) + Cardinality(PendingOf(p)) = 1
       /\ asked[p] = "create_immed" => told[p] \in {<< >>, <<"failed">>}

\* A buffer draws nothing exactly when its own import was refused.  A verdict
\* never reaches a buffer that got the id of an earlier one, and it reaches its
\* own, unless the client destroyed the params object before it came
\* (resolve_import, and the cancelling in handle_destroy).
VerdictsFindTheirBuffer ==
  \A id \in DOMAIN buffers :
    LET b == buffers[id] IN
      /\ b.kind = "failed" => b.import = Refused \/ b.import \in {t \in Tokens : verdict[t] = FALSE}
      /\ b.kind = "dmabuf" => verdict[b.import] # FALSE \/ b.import \in abandoned
=============================================================================
