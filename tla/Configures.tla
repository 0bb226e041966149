----------------------------- MODULE Configures -----------------------------
(* The configure handshake of xdg_surface (src/protocol/xdg_surface.rs,
   xdg_wm_base.rs, xdg_toplevel.rs, xdg_popup.rs): the compositor asks for a
   size and a state under a serial, the client acknowledges what it was asked
   and only then commits content.

   The client acknowledges in its own time and need not answer everything: a
   serial it was sent, at any time afterwards, covers events and requests under
   way.  One serial counter serves every event that carries one.  Serials are
   u32 and do not come round in a session. *)
EXTENDS Naturals, Sequences, FiniteSets, SequencesExt

CONSTANTS
  XdgSurfaces,             \* each wraps a wl_surface of its own
  MAX_PENDING_CONFIGURES,
  MaxSerial                \* bound on the serials of a behaviour

\* What the constants are.
ConfiguresAssumption == MAX_PENDING_CONFIGURES \in Nat /\ MaxSerial \in Nat

VARIABLES
  wrapped,       \* the xdg_surfaces that exist
  role,          \* XdgSurfaceState::role
  configured,    \* those that are configured
  pending,       \* pending_configures
  highest,       \* highest_configure
  next,          \* NEXT_SERIAL
  parented,      \* popups whose parent get_popup was given
  content,       \* the wl_surfaces that show a buffer
  fatal,         \* the client was sent an error, which disconnects it
  sent,          \* the serials each xdg_surface was sent since it exists
  answered,      \* the newest of them its client has acknowledged, 0 for none
  astray         \* the client broke the protocol

record == << wrapped, role, parented >>
vars == << record, configured, pending, highest, next, content, fatal, sent,
           answered, astray >>

Init ==
  /\ wrapped = {} /\ configured = {} /\ parented = {} /\ content = {}
  /\ role = [x \in XdgSurfaces |-> "none"]
  /\ pending = [x \in XdgSurfaces |-> << >>]
  /\ highest = [x \in XdgSurfaces |-> 0]
  /\ next = 1
  /\ fatal = FALSE /\ astray = FALSE
  /\ sent = [x \in XdgSurfaces |-> {}]
  /\ answered = [x \in XdgSurfaces |-> 0]

\* A full queue forgets its oldest serials.
Newest(s) == SubSeq(s, 1 + (IF Len(s) > MAX_PENDING_CONFIGURES
                            THEN Len(s) - MAX_PENDING_CONFIGURES ELSE 0), Len(s))

\* record_configure of one serial after the other.
Queued(s, serials) == Newest(s \o serials)

\* send_configure of the next `many' serials, news[x] to x; they are only
\* recorded with an xdg_surface that exists.
SendConfigures(many, news) ==
  LET To(x) == x \in wrapped /\ news[x] # << >>
  IN  /\ next + many <= MaxSerial + 1
      /\ next' = next + many
      /\ pending' = [x \in XdgSurfaces |->
           IF To(x) THEN Queued(pending[x], news[x]) ELSE pending[x]]
      /\ highest' = [x \in XdgSurfaces |-> IF To(x) THEN Last(news[x]) ELSE highest[x]]
      /\ sent' = [x \in XdgSurfaces |->
           IF To(x) THEN sent[x] \cup Range(news[x]) ELSE sent[x]]

SendConfigure(x) ==
  SendConfigures(1, [y \in XdgSurfaces |-> IF y = x THEN << next >> ELSE << >>])

GetXdgSurface(x) ==
  /\ x \notin wrapped
  /\ wrapped' = wrapped \cup {x}
  /\ role' = [role EXCEPT ![x] = "none"]
  /\ configured' = configured \ {x}
  /\ parented' = parented \ {x}
  /\ pending' = [pending EXCEPT ![x] = << >>]
  /\ highest' = [highest EXCEPT ![x] = 0]
  /\ sent' = [sent EXCEPT ![x] = {}]
  /\ answered' = [answered EXCEPT ![x] = 0]
  /\ UNCHANGED << next, content, fatal, astray >>

DestroyXdgSurface(x) ==
  /\ x \in wrapped
  /\ wrapped' = wrapped \ {x}
  /\ UNCHANGED << role, parented, configured, pending, highest, next, content,
                  fatal, sent, answered, astray >>

\* get_toplevel: the initial configure, then the focus goes over from y (or
\* from nothing, y = x), whose window is told first.
GetToplevel(x, y) ==
  /\ x \in wrapped
  /\ y # x => y \in wrapped /\ role[y] = "toplevel"
  /\ role' = [role EXCEPT ![x] = "toplevel"]
  /\ LET before == IF y = x THEN << >> ELSE << next + 1 >>
         many   == 2 + Len(before)
     IN  SendConfigures(many, [z \in XdgSurfaces |-> IF z = x THEN << next, next + many - 1 >>
                                                    ELSE IF z = y THEN before ELSE << >>])
  /\ UNCHANGED << wrapped, parented, configured, content, fatal, answered, astray >>

\* get_popup: with a parent the popup is configured at once, without one when a
\* layer surface adopts it.
GetPopup(x, parent) ==
  /\ x \in wrapped
  /\ role' = [role EXCEPT ![x] = "popup"]
  /\ IF parent
       THEN parented' = parented \cup {x} /\ SendConfigure(x)
       ELSE parented' = parented \ {x} /\ UNCHANGED << next, pending, highest, sent >>
  /\ UNCHANGED << wrapped, configured, content, fatal, answered, astray >>

Adopt(x) ==
  /\ x \in wrapped /\ role[x] = "popup" /\ x \notin parented
  /\ parented' = parented \cup {x}
  /\ SendConfigure(x)
  /\ UNCHANGED << wrapped, role, configured, content, fatal, answered, astray >>

\* A window is told its state or its size (module WindowStates), a popup that
\* has a parent is repositioned (module Popups).
Tell(x) ==
  /\ x \in wrapped
  /\ role[x] = "toplevel" \/ (role[x] = "popup" /\ x \in parented)
  /\ SendConfigure(x)
  /\ UNCHANGED << record, configured, content, fatal, answered, astray >>

\* Another event of this client takes a serial.
SerialElsewhere ==
  /\ next <= MaxSerial
  /\ next' = next + 1
  /\ UNCHANGED << record, configured, pending, highest, content, fatal, sent,
                  answered, astray >>

\* Mutant: what is not outstanding is taken for invented.
Unknown(x, serial) == ~Contains(pending[x], serial)

\* A serial newer than anything sent is invented; one that is outstanding is
\* taken out with every earlier one; any other is stale.
Invented(x, serial) == serial > highest[x]

Drained(x, serial) ==
  LET at == CHOOSE i \in DOMAIN pending[x] : pending[x][i] = serial
  IN  SubSeq(pending[x], at + 1, Len(pending[x]))

AckConfigure(x, serial) ==
  /\ x \in wrapped
  /\ IF Invented(x, serial)
       THEN fatal' = TRUE /\ UNCHANGED << pending, configured >>
     ELSE IF Contains(pending[x], serial)
       THEN /\ pending' = [pending EXCEPT ![x] = Drained(x, serial)]
            /\ configured' = configured \cup {x}
            /\ fatal' = fatal
     ELSE UNCHANGED << fatal, pending, configured >>
  /\ astray' = (astray \/ serial \notin sent[x])
  /\ answered' = [answered EXCEPT ![x] =
       IF serial \in sent[x] /\ serial > answered[x] THEN serial ELSE answered[x]]
  /\ UNCHANGED << record, highest, next, content, sent >>

\* What the protocol asks of a client before it shows something.
HasAgreed(x) == answered[x] # 0

\* A commit that attaches a buffer, check_configured_before_buffer.
CommitBuffer(x) ==
  /\ IF x \notin wrapped \/ x \in configured
       THEN content' = content \cup {x} /\ fatal' = fatal
       ELSE content' = content /\ fatal' = TRUE
  /\ astray' = (astray \/ (x \in wrapped /\ ~HasAgreed(x)))
  /\ UNCHANGED << record, configured, pending, highest, next, sent, answered >>

\* A commit that takes the buffer away.
CommitNull(x) ==
  /\ x \in content
  /\ content' = content \ {x}
  /\ UNCHANGED << record, configured, pending, highest, next, fatal, sent,
                  answered, astray >>

\* Requests under way when an error is sent are still handled.
Next ==
  \/ \E x \in XdgSurfaces :
       \/ GetXdgSurface(x) \/ DestroyXdgSurface(x) \/ Adopt(x) \/ Tell(x)
       \/ \E y \in XdgSurfaces : GetToplevel(x, y)
       \/ \E parent \in BOOLEAN : GetPopup(x, parent)
       \/ \E serial \in 1 .. MaxSerial : AckConfigure(x, serial)
       \/ CommitBuffer(x) \/ CommitNull(x)
  \/ SerialElsewhere

Spec == Init /\ [][Next]_vars

-----------------------------------------------------------------------------
\* Every variable has its type.
TypeOK ==
  /\ wrapped \subseteq XdgSurfaces /\ configured \subseteq XdgSurfaces
  /\ parented \subseteq XdgSurfaces /\ content \subseteq XdgSurfaces
  /\ role \in [XdgSurfaces -> {"none", "toplevel", "popup"}]
  /\ next \in 1 .. MaxSerial + 1
  /\ pending \in [XdgSurfaces -> Seq(1 .. MaxSerial)]
  /\ \A x \in XdgSurfaces : Len(pending[x]) <= MAX_PENDING_CONFIGURES
  /\ sent \in [XdgSurfaces -> SUBSET (1 .. MaxSerial)]
  /\ highest \in [XdgSurfaces -> 0 .. MaxSerial]
  /\ answered \in [XdgSurfaces -> 0 .. MaxSerial]
  /\ fatal \in BOOLEAN /\ astray \in BOOLEAN

\* A surface waits for its first answer with more outstanding than are kept.
Flooded == \E x \in wrapped \ configured : Cardinality(sent[x]) > MAX_PENDING_CONFIGURES

\* A client that answers only what it was asked, late, out of order, twice or
\* not at all, and shows nothing before its first answer, is never disconnected
\* (ack_configure, check_configured_before_buffer).  The first answer has to
\* come before the compositor has more than MAX_PENDING_CONFIGURES outstanding.
HonestIsSafe == [][~fatal /\ fatal' => astray' \/ Flooded]_vars
=============================================================================
