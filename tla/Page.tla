-------------------------------- MODULE Page --------------------------------
(***************************************************************************)
(* The Parrots of a web page (parrot.coffee) and the Broker in the hidden  *)
(* iframe that those with the service "es" share (broker.coffee).  Both    *)
(* sides post messages to the other's window, where a task dispatches each *)
(* of them to all listeners.  A callback of the page that constructs or    *)
(* closes Parrots does what it would do right after the dispatch.          *)
(***************************************************************************)
EXTENDS Subsequences, SequencesExt

CONSTANTS
    EsParrots,      \* Parrots with the service "es"
    WsParrots,      \* the others, which use WebSockets
    Attempts,       \* how often the loader looks for WebSocket: 10
    MaxFrames,      \* bound on the iframes that are created
    MaxEvents       \* bound on the events of EventSources

ASSUME ServicesAssumption == EsParrots \cap WsParrots = {}
ASSUME PageBoundsAssumption == Attempts \in Nat /\ MaxFrames \in Nat /\ MaxEvents \in Nat

VARIABLES
    parrots,    \* the Parrots constructed; their listeners are never removed
    frames,     \* how many iframes there have been
    frame,      \* the iframe that is in the page, 0 if there is none
    loaded,     \* whether its Broker was constructed
    sources,    \* Parrot -> how many EventSources the Broker opened for it
    toPage,     \* messages posted to the page
    toFrame,    \* the Parrots whose "connect" was posted to the iframe
    events,     \* how many events there were
    late,       \* the Parrots constructed after the iframe's iframeReady
    strays,     \* how many iframeReady of earlier iframes came while this one was loaded
    head,       \* whether an element of the page has the id "head"
    webSocket,  \* whether the window has a WebSocket, the polyfill's or its own
    loader,     \* Parrot -> "none", "waiting", "open" or "failed"
    counter     \* Parrot -> how often its loader looked in vain

frameVars == <<frames, frame, loaded, sources, toPage, toFrame, events, late, strays>>
socketVars == <<head, webSocket, loader, counter>>
vars == <<parrots, frameVars, socketVars>>

Ready(f) == [kind |-> "iframeReady", from |-> f]
Event(f) == [kind |-> "event", from |-> f]      \* "open:", "data:" or "error:"

NoSources == [p \in EsParrots |-> 0]

Init ==
    /\ parrots = {}
    /\ frames = 0 /\ frame = 0 /\ loaded = FALSE
    /\ sources = NoSources /\ toPage = <<>> /\ toFrame = <<>>
    /\ events = 0 /\ late = {} /\ strays = 0
    /\ head \in BOOLEAN /\ webSocket \in BOOLEAN
    /\ loader = [p \in WsParrots |-> "none"]
    /\ counter = [p \in WsParrots |-> 0]

-----------------------------------------------------------------------------
(***************************************************************************)
(* EventSource                                                             *)
(***************************************************************************)

IsAnnounced == loaded /\ Ready(frame) \notin Range(toPage)

(* constructor: createIFrame unless there is one, and addMessageListener.  *)
ConstructEs(p) ==
    /\ p \notin parrots
    /\ parrots' = parrots \cup {p}
    /\ \/ /\ frame = 0 /\ frames < MaxFrames
          /\ frames' = frames + 1 /\ frame' = frames' /\ loaded' = FALSE
          /\ UNCHANGED late
       \/ /\ frame # 0
          /\ late' = IF IsAnnounced THEN late \cup {p} ELSE late
          /\ UNCHANGED <<frames, frame, loaded>>
    /\ UNCHANGED <<sources, toPage, toFrame, events, strays, socketVars>>

(* The Broker's constructor.                                               *)
FrameLoads ==
    /\ frame # 0 /\ ~loaded
    /\ loaded' = TRUE
    /\ toPage' = Append(toPage, Ready(frame))
    /\ UNCHANGED <<parrots, frames, frame, sources, toFrame, events, late, strays,
                   socketVars>>

(* Mutant: one Parrot connects for all of them.                            *)
ConnectsOnce ==
    IF frame # 0 /\ loaded /\ parrots \cap EsParrots # {}
    THEN <<CHOOSE p \in parrots \cap EsParrots : TRUE>> ELSE <<>>

(* onIFrameReady: every listener posts its connect, in an order that       *)
(* nothing depends on.  Without an iframe post raises, and before the      *)
(* Broker's page is there, the window is not of the origin that the        *)
(* message is for.                                                         *)
Connects ==
    IF frame # 0 /\ loaded THEN SetToSeq(parrots \cap EsParrots) ELSE <<>>

(* What a message changes in strays, which is there for the properties.    *)
CountStray(m) ==
    strays' = IF loaded /\ m.kind = "iframeReady" /\ m.from # frame THEN strays + 1 ELSE strays

(* Mutant: any message makes the Parrots connect.                          *)
DispatchConnecting ==
    /\ toPage # <<>>
    /\ toPage' = Tail(toPage)
    /\ toFrame' = toFrame \o Connects
    /\ CountStray(Head(toPage))
    /\ UNCHANGED <<parrots, frames, frame, loaded, sources, events, late, socketVars>>

(* Parrot#dispatch, of all Parrots.  What the callbacks for an event are   *)
(* told changes nothing here; it reaches all Parrots, whoever connected.   *)
Dispatch ==
    /\ toPage # <<>>
    /\ toPage' = Tail(toPage)
    /\ toFrame' = toFrame \o (IF Head(toPage).kind = "iframeReady" THEN Connects ELSE <<>>)
    /\ CountStray(Head(toPage))
    /\ UNCHANGED <<parrots, frames, frame, loaded, sources, events, late, socketVars>>

(* dispatchEventSource in the iframe: openEventSource.                     *)
OpenEventSource ==
    /\ toFrame # <<>>
    /\ toFrame' = Tail(toFrame)
    /\ sources' = [sources EXCEPT ![Head(toFrame)] = @ + 1]
    /\ UNCHANGED <<parrots, frames, frame, loaded, toPage, events, late, strays, socketVars>>

(* on_open, on_message or on_error, of the EventSource opened for p.       *)
SourceEvent(p) ==
    /\ sources[p] > 0 /\ events < MaxEvents
    /\ toPage' = Append(toPage, Event(frame))
    /\ events' = events + 1
    /\ UNCHANGED <<parrots, frames, frame, loaded, sources, toFrame, late, strays,
                   socketVars>>

(* Mutant: the iframe goes, what it had is kept.                           *)
CloseEsKeepingSources(p) ==
    /\ p \in parrots /\ frame # 0
    /\ frame' = 0 /\ loaded' = FALSE
    /\ toFrame' = <<>> /\ late' = {} /\ strays' = 0
    /\ UNCHANGED <<parrots, frames, sources, toPage, events, socketVars>>

(* close: the iframe is removed, whoever made it, with the window in it.   *)
CloseEs(p) ==
    /\ p \in parrots /\ frame # 0
    /\ frame' = 0 /\ loaded' = FALSE
    /\ sources' = NoSources /\ toFrame' = <<>> /\ late' = {} /\ strays' = 0
    /\ UNCHANGED <<parrots, frames, toPage, events, socketVars>>

-----------------------------------------------------------------------------
(***************************************************************************)
(* WebSocket                                                               *)
(***************************************************************************)

(* loadPolyfills raises where the page has no "head" to put them in, and   *)
(* loadPolyfillsAndOpen does not come to start its loader.                 *)
LoaderAfterPolyfills == IF head THEN "waiting" ELSE "failed"

(* constructor: openWebSocket, or loadPolyfillsAndOpen if there is none.   *)
ConstructWs(p) ==
    /\ p \notin parrots
    /\ parrots' = parrots \cup {p}
    /\ loader' = [loader EXCEPT ![p] = IF webSocket THEN "open" ELSE LoaderAfterPolyfills]
    /\ UNCHANGED <<frameVars, head, webSocket, counter>>

(* The polyfill that loadPolyfills put in the page has loaded (external).  *)
PolyfillLoads ==
    /\ head /\ \E p \in WsParrots : loader[p] # "none"
    /\ ~webSocket
    /\ webSocket' = TRUE
    /\ UNCHANGED <<parrots, frameVars, head, loader, counter>>

(* Mutant: the loader waits for the WebSocket however long it takes.       *)
LoaderForever(p) ==
    /\ loader[p] = "waiting"
    /\ IF webSocket THEN loader' = [loader EXCEPT ![p] = "open"] ELSE UNCHANGED loader
    /\ UNCHANGED <<parrots, frameVars, head, webSocket, counter>>

(* loader, every 100 ms; without a WebSocket openWebSocket raises at last. *)
Loader(p) ==
    /\ loader[p] = "waiting"
    /\ \/ /\ webSocket \/ counter[p] > Attempts
          /\ loader' = [loader EXCEPT ![p] = IF webSocket THEN "open" ELSE "failed"]
          /\ UNCHANGED counter
       \/ /\ ~webSocket /\ counter[p] <= Attempts
          /\ counter' = [counter EXCEPT ![p] = @ + 1]
          /\ UNCHANGED loader
    /\ UNCHANGED <<parrots, frameVars, head, webSocket>>

Next ==
    \/ \E p \in EsParrots : ConstructEs(p) \/ SourceEvent(p) \/ CloseEs(p)
    \/ FrameLoads \/ Dispatch \/ OpenEventSource
    \/ \E p \in WsParrots : ConstructWs(p) \/ Loader(p)
    \/ PolyfillLoads

Spec == Init /\ [][Next]_vars

(* The browser runs its tasks and timers; it need not get the page of the  *)
(* iframe nor the polyfill over the network.                               *)
FairSpec ==
    /\ Spec
    /\ WF_vars(Dispatch) /\ WF_vars(OpenEventSource)
    /\ \A p \in WsParrots : WF_vars(Loader(p))

-----------------------------------------------------------------------------
(* TypeOK: types, and what belongs to an iframe is gone with it (115-117). *)
TypeOK ==
    /\ parrots \subseteq EsParrots \cup WsParrots
    /\ frames \in 0 .. MaxFrames /\ frame \in {0, frames} /\ loaded \in BOOLEAN
    /\ sources \in [EsParrots -> Nat]
    /\ toPage \in Seq([kind : {"iframeReady", "event"}, from : 1 .. MaxFrames])
    /\ toFrame \in Seq(EsParrots) /\ events \in 0 .. MaxEvents
    /\ late \subseteq parrots /\ strays \in Nat
    /\ head \in BOOLEAN /\ webSocket \in BOOLEAN
    /\ loader \in [WsParrots -> {"none", "waiting", "open", "failed"}]
    /\ counter \in [WsParrots -> 0 .. Attempts + 1]
    /\ frame = 0 => ~loaded /\ sources = NoSources /\ toFrame = <<>> /\ strays = 0

Pending(p) == Len(Among(toFrame, {p}))

(* ConnectedOncePerFrame: the Broker in an iframe has at most one          *)
(* EventSource for a Parrot, connects on their way included, and one more  *)
(* for each iframeReady that an earlier iframe left behind and the page    *)
(* dispatched to this one, never more; before the iframe's own iframeReady *)
(* it has only those.  A Parrot constructed after that one has none,       *)
(* whatever is still on its way; it only hears the others'.  Every other   *)
(* Parrot has one as soon as it was dispatched (lines 97-103, 120-133 and  *)
(* 148-151).                                                               *)
ConnectedOncePerFrame ==
    \A p \in EsParrots :
        /\ p \in late => sources[p] + Pending(p) = 0
        /\ sources[p] + Pending(p) <= strays + IF IsAnnounced THEN 1 ELSE 0
        /\ p \in parrots \ late /\ IsAnnounced => sources[p] + Pending(p) > 0

(* ListenersConnect: once the Broker of an iframe is there, every Parrot   *)
(* that listens by its iframeReady, closed or not, has its EventSource in  *)
(* the end unless a Parrot is closed.                                      *)
ListenersConnect ==
    \A p \in EsParrots, f \in 1 .. MaxFrames :
        (p \in parrots \ late /\ frame = f /\ loaded) ~> (sources[p] > 0 \/ frame # f)

(* LoadersEnd: a Parrot without WebSocket gets one or gives up.            *)
LoadersEnd ==
    \A p \in WsParrots : loader[p] = "waiting" ~> loader[p] \in {"open", "failed"}
=============================================================================
