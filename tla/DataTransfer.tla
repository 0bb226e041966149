---------------------------- MODULE DataTransfer ----------------------------
(***************************************************************************)
(* The clipboard, the primary selection and drag and drop                  *)
(* (src/protocol/wl_data_*.rs, zwp_primary_selection_*.rs,                 *)
(* zwlr_data_control_*.rs, src/state/compositor_state.rs, src/input.rs).   *)
(*                                                                         *)
(* A source is content a client offers; an offer is a source as some       *)
(* device of a receiving client was told of it.  The compositor carries no *)
(* content: it decides which source an offer reads from, whom it tells,    *)
(* and how each source hears the end of what it was used for.              *)
(*                                                                         *)
(* Each client has one surface, which can have the focus, start a drag and *)
(* be dragged over.  Mime types stand for one another, so that an offer is *)
(* accepted or not; serials and the pointer grab only refuse requests, as  *)
(* a client that does not make them would.  An offer that no longer reads    *)
(* from a source answers every request with nothing, and is not kept.        *)
(***************************************************************************)
EXTENDS Naturals, FiniteSets

CONSTANTS Clients,
          OldClients,       \* bound wl_data_device_manager below version 3
          DataSources, PrimarySources, ControlSources,
          DataDevices, PrimaryDevices, ControlDevices,
          OldManagers,      \* control devices without the primary half
          OwnerOf,          \* of sources and devices
          Actions,          \* what a drag can mean, a set of 1 .. 3
          MaxOffers,        \* bound: offers a device has at a time
          NoClient, NoSource, Never

Sources == DataSources \cup PrimarySources \cup ControlSources
Devices == DataDevices \cup PrimaryDevices \cup ControlDevices
Selections == {"clipboard", "primary"}
Offers == Devices \X (1 .. MaxOffers)

\* DND_ACTION_COPY, MOVE and ASK, in the order they are preferred; none.
NoAction == 0
Copy == 1

\* What the constants have to be.
OwnersAssumption ==
  /\ OwnerOf \in [Sources \cup Devices -> Clients]
  /\ OldClients \subseteq Clients /\ OldManagers \subseteq ControlDevices
NamesAssumption ==
  /\ NoClient \notin Clients /\ NoSource \notin Sources
  /\ Never \notin Sources \cup {NoSource}
KindsAssumption ==
  /\ DataDevices \cap PrimaryDevices = {} /\ DataDevices \cap ControlDevices = {}
  /\ PrimaryDevices \cap ControlDevices = {}
  /\ DataSources \cap PrimarySources = {} /\ DataSources \cap ControlSources = {}
  /\ PrimarySources \cap ControlSources = {}
ActionsAssumption == Actions \subseteq 1 .. 3 /\ Copy \in Actions
BoundAssumption == MaxOffers \in Nat

VARIABLES
  clients,     \* connected
  mapped,      \* the clients that have a surface
  devices,     \* state.data_devices, primary_devices, data_control_devices
  sources,     \* state.data_sources
  offers,      \* state.data_offers that have a source
  selection,   \* state.selection, state.primary_selection
  drag,        \* state.drag
  focus,       \* the client of state.focused_surface
  held,        \* state.pressed_buttons is not empty
  told,        \* device -> selection -> the source it last heard of
  entered,     \* data devices told of an enter and of no leave or drop since
  agreed,      \* source -> the action it last heard of
  dropped      \* sources let go of over a target that took them

owners == <<clients, mapped, devices>>
vars == <<owners, sources, offers, selection, drag, focus, held, told, entered, agreed, dropped>>

-----------------------------------------------------------------------------
(* What the parts look like.                                               *)

Source == [role : {"absent", "unused", "selection", "drag"}, cancelled : BOOLEAN,
           actions : SUBSET Actions]
Absent == [role |-> "absent", cancelled |-> FALSE, actions |-> {}]
NewSource == [Absent EXCEPT !.role = "unused"]

Offer == [kind : {"absent", "selection", "drag", "dropped"},
          source : Sources \cup {NoSource}, accepted : BOOLEAN,
          actions : SUBSET Actions, preferred : Actions \cup {NoAction},
          resolved : Actions \cup {NoAction}]
NewOffer(kind, s) == [kind |-> kind, source |-> s, accepted |-> FALSE, actions |-> {},
                      preferred |-> NoAction, resolved |-> NoAction]
NoOffer == NewOffer("absent", NoSource)

Drag == [on : BOOLEAN, source : Sources \cup {NoSource}, origin : Clients \cup {NoClient},
         focus : Clients \cup {NoClient}, offers : SUBSET Offers]
NoDrag == [on |-> FALSE, source |-> NoSource, origin |-> NoClient, focus |-> NoClient,
           offers |-> {}]

Init ==
  /\ clients = Clients /\ mapped = Clients
  /\ devices = {}
  /\ sources = [s \in Sources |-> Absent]
  /\ offers = [o \in Offers |-> NoOffer]
  /\ selection = [sel \in Selections |-> NoSource]
  /\ drag = NoDrag
  /\ focus = NoClient
  /\ held = FALSE
  /\ told = [d \in Devices |-> [sel \in Selections |-> Never]]
  /\ entered = {}
  /\ agreed = [s \in Sources |-> NoAction]
  /\ dropped = {}

Live(s) == sources[s].role # "absent"
SourcesOf(c) == {s \in Sources : OwnerOf[s] = c}
DevicesOf(c) == {d \in devices : OwnerOf[d] = c}

\* Mutant: a device that was released is still a client's.
DataDevicesEverOf(c) == {d \in DataDevices : OwnerOf[d] = c}

\* devices_of
DataDevicesOf(c) == DevicesOf(c) \cap DataDevices

-----------------------------------------------------------------------------
(* Offers.                                                                 *)

\* The name the next offer of a device gets.
Slot(offs, d) ==
  CHOOSE n \in 1 .. MaxOffers :
    /\ offs[<<d, n>>].kind = "absent"
    /\ \A m \in 1 .. n - 1 : offs[<<d, m>>].kind # "absent"

\* Bound: every device can be given n more.
Room(n) ==
  \A d \in Devices :
    Cardinality({m \in 1 .. MaxOffers : offers[<<d, m>>].kind = "absent"}) >= n

\* create_offer, on each of these devices; there is none of nothing.
Given(offs, ds, kind, s) ==
  [o \in Offers |-> IF s # NoSource /\ o[1] \in ds /\ o[2] = Slot(offs, o[1])
                    THEN NewOffer(kind, s) ELSE offs[o]]

\* invalidate_offer: the offers read from nothing.
Cut(offs, these) == [o \in Offers |-> IF o \in these THEN NoOffer ELSE offs[o]]

\* Mutant: an offer that was dropped on keeps what it reads from.
FromUndropped(offs, ss) ==
  {o \in Offers : offs[o].source \in ss /\ offs[o].kind # "dropped"}

\* invalidate_offers_from
From(offs, ss) == {o \in Offers : offs[o].source \in ss}

-----------------------------------------------------------------------------
(* The two selections.                                                     *)

Hearing(sel) ==
  IF sel = "clipboard" THEN DataDevices \cup ControlDevices
                       ELSE PrimaryDevices \cup (ControlDevices \ OldManagers)

\* The devices a client that has the focus hears of a selection on.
Following(f, sel) == {d \in DevicesOf(f) \cap Hearing(sel) : d \notin ControlDevices}

\* announce_selection: the client that has the focus, and every manager.
Audience(f, sel) == Following(f, sel) \cup (devices \cap ControlDevices \cap Hearing(sel))

Hears(t, ds, sel, s) ==
  [d \in Devices |-> IF d \in ds THEN [t[d] EXCEPT ![sel] = s] ELSE t[d]]

\* Hand out both selections as they stand, each to some devices.
HandedOut(offs, now, clipboardTo, primaryTo) ==
  Given(Given(offs, clipboardTo, "selection", now["clipboard"]),
        primaryTo, "selection", now["primary"])
ToldBoth(t, now, clipboardTo, primaryTo) ==
  Hears(Hears(t, clipboardTo, "clipboard", now["clipboard"]), primaryTo, "primary", now["primary"])

\* The source a selection takes the place of.
Replaced(sel, s) == {selection[sel]} \ {s, NoSource}

Cancelled(srcs, ss) ==
  [s \in Sources |-> IF s \in ss THEN [srcs[s] EXCEPT !.cancelled = TRUE] ELSE srcs[s]]

\* What set_selection may put where: each interface its own sources, and the
\* primary selection's may be used again.
MaySet(d, sel, s) ==
  /\ d \in Hearing(sel)
  /\ \/ s = NoSource
     \/ /\ s # NoSource /\ OwnerOf[s] = OwnerOf[d] /\ Live(s)
        /\ \/ d \in DataDevices /\ s \in DataSources /\ sources[s].role = "unused"
           \/ d \in ControlDevices /\ s \in ControlSources /\ sources[s].role = "unused"
           \/ d \in PrimaryDevices /\ s \in PrimarySources

\* A source that can be used once has been.
Claimed(s) ==
  [x \in Sources |-> IF x = s /\ x \notin PrimarySources
                     THEN [sources[x] EXCEPT !.role = "selection"] ELSE sources[x]]

\* set_selection and set_primary_selection, asked by any of the three devices.
SetSelection(d, sel, s) ==
  /\ d \in devices
  /\ MaySet(d, sel, s)
  /\ Room(1)
  /\ sources' = Cancelled(Claimed(s), Replaced(sel, s))
  /\ offers' = Given(Cut(offers, From(offers, Replaced(sel, s))), Audience(focus, sel),
                     "selection", s)
  /\ told' = Hears(told, Audience(focus, sel), sel, s)
  /\ selection' = [selection EXCEPT ![sel] = s]
  /\ UNCHANGED <<owners, drag, focus, held, entered, agreed, dropped>>

\* switch_focus: the client hears of both selections.
Focus(c) ==
  /\ c \in mapped /\ focus # c
  /\ Room(1)
  /\ focus' = c
  /\ offers' = HandedOut(offers, selection, Following(c, "clipboard"), Following(c, "primary"))
  /\ told' = ToldBoth(told, selection, Following(c, "clipboard"), Following(c, "primary"))
  /\ UNCHANGED <<owners, sources, selection, drag, held, entered, agreed, dropped>>

\* clear_focus
Unfocus ==
  /\ focus # NoClient
  /\ focus' = NoClient
  /\ UNCHANGED <<owners, sources, offers, selection, drag, held, told, entered, agreed, dropped>>

\* Mutant: a device hears of a selection when it next changes.
NotAtOnce(d, sel) == {}

\* What a new device is told: a manager at once, any other with the focus.
AtOnce(d, sel) ==
  {d} \cap Hearing(sel) \cap (IF OwnerOf[d] = focus THEN Devices ELSE ControlDevices)

\* get_data_device, get_device: of the three managers.
GetDevice(d) ==
  /\ d \notin devices /\ OwnerOf[d] \in clients
  /\ Room(IF d \in ControlDevices THEN 2 ELSE 1)
  /\ devices' = devices \cup {d}
  /\ offers' = HandedOut(offers, selection, AtOnce(d, "clipboard"), AtOnce(d, "primary"))
  /\ told' = ToldBoth(told, selection, AtOnce(d, "clipboard"), AtOnce(d, "primary"))
  /\ UNCHANGED <<clients, mapped, sources, selection, drag, focus, held, entered, agreed, dropped>>

\* release and destroy: its offers stay.
ReleaseDevice(d) ==
  /\ d \in devices
  /\ devices' = devices \ {d}
  /\ told' = [told EXCEPT ![d] = [sel \in Selections |-> Never]]
  /\ entered' = entered \ {d}
  /\ UNCHANGED <<clients, mapped, sources, offers, selection, drag, focus, held, agreed, dropped>>

-----------------------------------------------------------------------------
(* What a drag comes to mean.                                              *)

Version(c) == IF c \in OldClients THEN 2 ELSE 3

\* resolve_action: of what both sides allow, what the target prefers, else the
\* first.  A side that cannot say anything means a copy.
Settled(mask, s, offer, target) ==
  LET allowed == IF Version(OwnerOf[s]) >= 3 THEN mask ELSE {Copy}
      wanted == IF Version(target) >= 3 THEN offer.actions ELSE {Copy}
      preferred == IF Version(target) >= 3 THEN offer.preferred ELSE Copy
      both == allowed \cap wanted
  IN CASE both = {} -> NoAction
       [] preferred \in both -> preferred
       [] OTHER -> CHOOSE a \in both : \A b \in both : a <= b

\* The offers whose action is still open: of a drag, or of a drop until it is
\* finished with.
OfDrag(offer) == offer.kind \in {"drag", "dropped"}

\* Mutant: what was dropped on is settled for good.
ResolvedWhileDragged(offs, srcs, these) ==
  [o \in Offers |->
     IF o \in these /\ offs[o].kind = "drag"
     THEN [offs[o] EXCEPT !.resolved = Settled(srcs[offs[o].source].actions, offs[o].source,
                                               offs[o], OwnerOf[o[1]])]
     ELSE offs[o]]

\* resolve_offer_action, of these offers, by what the sources allow now.
Resolved(offs, srcs, these) ==
  [o \in Offers |->
     IF o \in these /\ OfDrag(offs[o])
     THEN [offs[o] EXCEPT !.resolved = Settled(srcs[offs[o].source].actions, offs[o].source,
                                               offs[o], OwnerOf[o[1]])]
     ELSE offs[o]]

\* Both sides of an offer hear of its action when it changes, if they know of
\* actions.  Of several, a source hears in some order.
Heard(before, after, these) ==
  LET changed == {o \in these : after[o].resolved # before[o].resolved}
      news(s) == {after[o].resolved : o \in {x \in changed : /\ after[x].source = s
                                                             /\ Version(OwnerOf[s]) >= 3}}
  IN agreed' \in {f \in [Sources -> Actions \cup {NoAction}] :
                    \A s \in Sources : f[s] \in (IF news(s) = {} THEN {agreed[s]} ELSE news(s))}

\* wl_data_source.set_actions; of a source on the clipboard nobody reads them.
SetSourceActions(s, mask) ==
  /\ s \in DataSources /\ sources[s].role \in {"unused", "drag"}
  /\ sources' = [sources EXCEPT ![s].actions = mask]
  /\ offers' = Resolved(offers, sources', Offers)
  /\ Heard(offers, offers', Offers)
  /\ UNCHANGED <<owners, selection, drag, focus, held, told, entered, dropped>>

\* What a target says on an offer; on an offer of no drag nobody looks at it.
Answered(o, offer) ==
  LET changed == [offers EXCEPT ![o] = offer] IN
  /\ OfDrag(offers[o])
  /\ offers' = Resolved(changed, sources, {o})
  /\ Heard(changed, offers', {o})
  /\ UNCHANGED <<owners, sources, selection, drag, focus, held, told, entered, dropped>>

\* wl_data_offer.accept, of something or of nothing, and set_actions.
Accept(o, yes) == Answered(o, [offers[o] EXCEPT !.accepted = yes])
SetOfferActions(o, mask, preferred) ==
  /\ preferred \in mask \cup {NoAction}
  /\ Answered(o, [offers[o] EXCEPT !.actions = mask, !.preferred = preferred])

\* wl_data_offer.finish, legal only on what was dropped: read to the end.
Finish(o) ==
  /\ offers[o].kind = "dropped"
  /\ offers' = [offers EXCEPT ![o] = NoOffer]
  /\ UNCHANGED <<owners, sources, selection, drag, focus, held, told, entered, agreed, dropped>>

\* wl_data_offer.destroy and its two siblings.
DestroyOffer(o) ==
  /\ offers[o].kind # "absent"
  /\ offers' = [offers EXCEPT ![o] = NoOffer]
  /\ drag' = [drag EXCEPT !.offers = @ \ {o}]
  /\ UNCHANGED <<owners, sources, selection, focus, held, told, entered, agreed, dropped>>

-----------------------------------------------------------------------------
(* Drags.                                                                  *)

\* start_drag, while a button is down, with an unused source or none.
StartDrag(d, s) ==
  /\ d \in devices \cap DataDevices
  /\ ~ drag.on /\ held /\ OwnerOf[d] \in mapped
  /\ s # NoSource => s \in DataSources /\ OwnerOf[s] = OwnerOf[d] /\ sources[s].role = "unused"
  /\ drag' = [NoDrag EXCEPT !.on = TRUE, !.source = s, !.origin = OwnerOf[d]]
  /\ sources' = [x \in Sources |-> IF x = s THEN [sources[x] EXCEPT !.role = "drag"]
                                            ELSE sources[x]]
  /\ UNCHANGED <<owners, offers, selection, focus, held, told, entered, agreed, dropped>>

\* Mutant: only the devices that have an offer hear of the end.
LeftByOffer == {o[1] : o \in drag.offers}

\* Every device of the client the drag is over hears a leave or the drop.
Left == DataDevicesOf(drag.focus)

\* update_drag: leave one surface, enter another or none.  A drag without a
\* source stays with its client.
MoveDrag(t) ==
  LET cut == Cut(offers, drag.offers)
      entering == DataDevicesOf(t)
      new == IF drag.source = NoSource THEN {} ELSE {<<d, Slot(cut, d)>> : d \in entering}
      given == Given(cut, entering, "drag", drag.source)
  IN /\ drag.on /\ t # drag.focus
     /\ t \in mapped \cup {NoClient}
     /\ drag.source = NoSource => t \in {drag.origin, NoClient}
     /\ Room(1)
     /\ entered' = (entered \ Left) \cup entering
     /\ drag' = [drag EXCEPT !.focus = t, !.offers = new]
     /\ offers' = Resolved(given, sources, new)
     /\ Heard(given, offers', new)
     /\ UNCHANGED <<owners, sources, selection, focus, held, told, dropped>>

\* What the target said of the drag through some offer it was given.
TargetAccepted ==
  \E o \in drag.offers : offers[o].accepted /\ offers[o].resolved # NoAction

\* A button comes up, with or without others still down: finish_drag.
Dropped == drag.source # NoSource /\ drag.focus # NoClient /\ TargetAccepted

\* What a source has heard of its end: cancel_source, and send_dnd_drop_performed,
\* which tells a source below version 3 nothing.
Ends(s) ==
  {end \in {"cancelled", "dnd_drop_performed"} :
     \/ end = "cancelled" /\ sources[s].cancelled
     \/ end = "dnd_drop_performed" /\ s \in dropped /\ Version(OwnerOf[s]) >= 3}

\* Mutant: a drag let go over nothing just ends.
EndedOver == IF drag.focus = NoClient THEN {} ELSE {drag.source}

\* A drag that comes to nothing cancels its source, wherever it was.
Ended == {drag.source}

ButtonUp ==
  /\ held
  /\ held' \in BOOLEAN
  /\ drag' = NoDrag
  /\ entered' = entered \ Left
  /\ \/ /\ drag.on /\ Dropped
        /\ offers' = [o \in Offers |-> IF o \in drag.offers
                                       THEN [offers[o] EXCEPT !.kind = "dropped"] ELSE offers[o]]
        /\ dropped' = dropped \cup {drag.source}
        /\ UNCHANGED sources
     \/ /\ drag.on /\ ~ Dropped
        /\ offers' = Cut(offers, drag.offers)
        /\ sources' = Cancelled(sources, Ended)
        /\ UNCHANGED dropped
     \/ ~ drag.on /\ UNCHANGED <<offers, sources, dropped>>
  /\ UNCHANGED <<owners, selection, focus, told, agreed>>

ButtonDown ==
  /\ ~ held /\ held' = TRUE
  /\ UNCHANGED <<owners, sources, offers, selection, drag, focus, told, entered, agreed, dropped>>

\* cancel_drag: the target hears a leave, the source that it is cancelled.
CancelDrag ==
  /\ drag' = NoDrag
  /\ offers' = Cut(offers, drag.offers)
  /\ sources' = Cancelled(sources, {drag.source})
  /\ entered' = entered \ Left

\* The user presses Escape.
Escape ==
  /\ drag.on
  /\ CancelDrag
  /\ UNCHANGED <<owners, selection, focus, held, told, agreed, dropped>>

-----------------------------------------------------------------------------
(* What comes and goes.                                                    *)

\* create_data_source and create_source
CreateSource(s) ==
  /\ OwnerOf[s] \in clients /\ ~ Live(s)
  /\ sources' = [sources EXCEPT ![s] = NewSource]
  /\ agreed' = [agreed EXCEPT ![s] = NoAction]
  /\ dropped' = dropped \ {s}
  /\ UNCHANGED <<owners, offers, selection, drag, focus, held, told, entered>>

\* clear_selection, of the selections these sources hold.
Cleared(ss) == [sel \in Selections |-> IF selection[sel] \in ss THEN NoSource ELSE selection[sel]]
ToldCleared(t, f, ss) ==
  [d \in Devices |-> [sel \in Selections |->
     IF selection[sel] \in ss /\ d \in Audience(f, sel) THEN NoSource ELSE t[d][sel]]]

\* retire_data_source: off the selections, out of the drag, out of every offer.
DestroySource(s) ==
  LET dragged == drag.on /\ drag.source = s
      target == IF dragged THEN drag.offers ELSE {}
  IN /\ Live(s) /\ OwnerOf[s] \in clients
     /\ selection' = Cleared({s})
     /\ told' = ToldCleared(told, focus, {s})
     /\ offers' = Cut(offers, target \cup From(offers, {s}))
     /\ drag' = IF dragged THEN NoDrag ELSE drag
     /\ entered' = IF dragged THEN entered \ Left ELSE entered
     /\ sources' = [sources EXCEPT ![s] = Absent]
     /\ UNCHANGED <<owners, focus, held, agreed, dropped>>

CreateSurface(c) ==
  /\ c \in clients \ mapped
  /\ mapped' = mapped \cup {c}
  /\ UNCHANGED <<clients, devices, sources, offers, selection, drag, focus, held, told, entered,
                 agreed, dropped>>

\* destroy_surface: a drag ends with its origin, and leaves what is not there.
DestroySurface(c) ==
  /\ c \in mapped
  /\ mapped' = mapped \ {c}
  /\ focus' = IF focus = c THEN NoClient ELSE focus
  /\ \/ drag.on /\ drag.origin = c /\ CancelDrag
     \/ /\ drag.on /\ drag.origin # c /\ drag.focus = c
        /\ drag' = [drag EXCEPT !.focus = NoClient, !.offers = {}]
        /\ offers' = Cut(offers, drag.offers)
        /\ entered' = entered \ Left
        /\ UNCHANGED sources
     \/ /\ ~ drag.on \/ (drag.origin # c /\ drag.focus # c)
        /\ UNCHANGED <<sources, offers, drag, entered>>
  /\ UNCHANGED <<clients, devices, selection, held, told, agreed, dropped>>

\* remove_client_resources and the refocus after it.  The shell, told that the
\* client is gone, may focus another at once, when the selections still are what
\* they were, or afterwards, if the client had the focus.
Disconnect(c) ==
  \E hooked \in {focus} \cup (mapped \ {c}),
     refocused \in {NoClient} \cup (mapped \ {c}) :
    LET between == IF hooked = c THEN NoClient ELSE hooked
        after == IF focus = c /\ refocused # NoClient THEN refocused ELSE between
        hears(f, was, sel) == IF f \in {was, NoClient} THEN {} ELSE Following(f, sel)
        cancels == drag.on /\ drag.origin = c
        leaves == drag.on /\ drag.focus = c
        now == Cleared(SourcesOf(c))
        \* client_removed
        offs1 == HandedOut(offers, selection, hears(hooked, focus, "clipboard"),
                           hears(hooked, focus, "primary"))
        told1 == ToldBoth(told, selection, hears(hooked, focus, "clipboard"),
                          hears(hooked, focus, "primary"))
        \* cancel_drag, clear_selection, invalidate_offers_from, and the sweep
        offs2 == Cut(offs1, (IF cancels THEN drag.offers ELSE {}) \cup From(offs1, SourcesOf(c)))
        offs3 == [o \in Offers |-> IF OwnerOf[o[1]] = c THEN NoOffer ELSE offs2[o]]
        told3 == [d \in Devices |-> IF OwnerOf[d] = c THEN [sel \in Selections |-> Never]
                                    ELSE ToldCleared(told1, hooked, SourcesOf(c))[d]]
    IN /\ c \in clients
       /\ Room(2)
       /\ clients' = clients \ {c} /\ mapped' = mapped \ {c}
       /\ devices' = devices \ DevicesOf(c)
       /\ sources' = [s \in Sources |-> IF OwnerOf[s] = c THEN Absent ELSE sources[s]]
       /\ selection' = now
       /\ drag' = CASE cancels -> NoDrag
                    [] leaves /\ ~ cancels -> [drag EXCEPT !.focus = NoClient, !.offers = {}]
                    [] OTHER -> drag
       /\ entered' = entered \ (DevicesOf(c) \cup IF cancels THEN Left ELSE {})
       /\ focus' = after
       \* refocus
       /\ offers' = HandedOut(offs3, now, hears(after, between, "clipboard"),
                              hears(after, between, "primary"))
       /\ told' = ToldBoth(told3, now, hears(after, between, "clipboard"),
                           hears(after, between, "primary"))
       /\ UNCHANGED <<held, agreed, dropped>>

-----------------------------------------------------------------------------
SourceRequest(s) ==
  \/ CreateSource(s) \/ DestroySource(s)
  \/ \E mask \in SUBSET Actions : SetSourceActions(s, mask)

DeviceRequest(d) ==
  \/ GetDevice(d) \/ ReleaseDevice(d)
  \/ \E s \in Sources \cup {NoSource} :
       StartDrag(d, s) \/ \E sel \in Selections : SetSelection(d, sel, s)

OfferRequest(o) ==
  \/ \E yes \in BOOLEAN : Accept(o, yes)
  \/ \E mask \in SUBSET Actions, p \in Actions \cup {NoAction} : SetOfferActions(o, mask, p)
  \/ Finish(o) \/ DestroyOffer(o)

Request ==
  \/ \E s \in Sources : SourceRequest(s)
  \/ \E d \in Devices : DeviceRequest(d)
  \/ \E o \in Offers : OfferRequest(o)
  \/ \E c \in Clients : CreateSurface(c) \/ DestroySurface(c) \/ Disconnect(c)

User ==
  \/ \E c \in Clients : Focus(c)
  \/ \E t \in Clients \cup {NoClient} : MoveDrag(t)
  \/ Unfocus \/ ButtonDown \/ ButtonUp \/ Escape

Next == Request \/ User

Spec == Init /\ [][Next]_vars

-----------------------------------------------------------------------------
(* Properties.                                                             *)

TypeOK ==
  /\ clients \subseteq Clients /\ mapped \subseteq clients
  /\ devices \subseteq {d \in Devices : OwnerOf[d] \in clients}
  /\ sources \in [Sources -> Source]
  /\ offers \in [Offers -> Offer]
  /\ selection \in [Selections -> Sources \cup {NoSource}]
  /\ drag \in Drag
  /\ focus \in mapped \cup {NoClient}
  /\ held \in BOOLEAN
  /\ told \in [Devices -> [Selections -> Sources \cup {NoSource, Never}]]
  /\ entered \subseteq devices \cap DataDevices
  /\ agreed \in [Sources -> Actions \cup {NoAction}]
  /\ dropped \subseteq Sources

\* A client that reads an offer reads what it was offered as, or nothing: a
\* selection offer only the source that holds a selection now, a drag offer only
\* the source being dragged and only while the drag is over that client, a
\* dropped one a source that was let go of over a target that took it; and never a
\* source that is gone.
OffersAreCurrent ==
  \A o \in Offers : LET offer == offers[o] IN
    offer.kind # "absent" =>
      /\ Live(offer.source)
      /\ CASE offer.kind = "selection" -> \E sel \in Selections : offer.source = selection[sel]
           [] offer.kind = "drag" -> /\ drag.on /\ offer.source = drag.source
                                     /\ o \in drag.offers /\ OwnerOf[o[1]] = drag.focus
           [] offer.kind = "dropped" -> offer.source \in dropped

\* Whoever is entitled to a selection knows what it is now: the devices of the
\* client that has the focus, and the managers whoever has it; whichever of the
\* focus, the selection and the device came last.
EntitledKnow ==
  \A sel \in Selections : \A d \in devices \cap Hearing(sel) :
    d \in ControlDevices \/ OwnerOf[d] = focus => told[d][sel] = selection[sel]

\* Every source that can be used once hears of the end of its use what it is to
\* hear, when that use ends and not before: that it is cancelled, of the selection
\* that replaced it or the drag that came to nothing, and then of no drop; that it
\* was dropped, and then not that it is cancelled; or, dropped below version 3,
\* which has no event for it, nothing at all.
SourceFate ==
  \A s \in DataSources \cup ControlSources :
    CASE sources[s].role = "unused" -> Ends(s) = {}
      [] sources[s].role = "selection" ->
           Ends(s) = IF \E sel \in Selections : selection[sel] = s THEN {} ELSE {"cancelled"}
      [] sources[s].role = "drag" ->
           Ends(s) = IF drag.on /\ drag.source = s THEN {}
                     ELSE IF s \notin dropped THEN {"cancelled"}
                     ELSE IF Version(OwnerOf[s]) >= 3 THEN {"dnd_drop_performed"} ELSE {}
      [] OTHER -> \A sel \in Selections : selection[sel] # s

\* What an offer has settled on is what both sides now say, through every change
\* of mind on either side, before the drop and after it; and a source that is
\* to act on it has heard of it.
SidesAgree ==
  \A o \in Offers : LET offer == offers[o] IN
    OfDrag(offer) =>
      /\ offer.resolved = Settled(sources[offer.source].actions, offer.source, offer,
                                  OwnerOf[o[1]])
      /\ offer.resolved # NoAction /\ Version(OwnerOf[offer.source]) >= 3
           => agreed[offer.source] = offer.resolved

\* No device is left believing that a drag is over its client: those that were
\* told of an enter are of the client the drag is over now.
NobodyLeftEntered ==
  entered # {} => drag.on /\ \A d \in entered : OwnerOf[d] = drag.focus
=============================================================================
