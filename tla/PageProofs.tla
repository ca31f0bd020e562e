----------------------------- MODULE PageProofs -----------------------------
(***************************************************************************)
(* Proofs about Page, for any Parrots and any bounds.                      *)
(***************************************************************************)
EXTENDS Page, SequenceFacts, FiniteSetTheorems

Messages == [kind : {"iframeReady", "event"}, from : 1 .. MaxFrames]
Announcements == {m \in Messages : m.kind = "iframeReady"}

(* The announcements of iframes that are on their way to the page.         *)
Announced == Among(toPage, Announcements)

(* Whether the announcement of the iframe in the page was dispatched: it   *)
(* is behind those of earlier iframes.                                     *)
Own == IF loaded /\ Announced = <<>> THEN 1 ELSE 0

(* Why no Parrot connects too often: an EventSource, or a connect on its   *)
(* way to open one, is for an announcement that was dispatched while the   *)
(* iframe was loaded, and one of those, the last, is the iframe's own.     *)
(* A Parrot that is late has nothing to come.                              *)
PageInv ==
    /\ IsFiniteSet(parrots)
    /\ \A p \in EsParrots :
          /\ sources[p] + Pending(p) <= strays + Own
          /\ p \notin parrots \/ p \in late => sources[p] = 0 /\ Pending(p) = 0
    /\ late # {} => frame # 0 /\ loaded /\ Announced = <<>>
    /\ \A n \in 1 .. Len(Announced) :
          /\ Announced[n].from <= frames
          /\ Announced[n] = Ready(frame) <=> loaded /\ n = Len(Announced)

-----------------------------------------------------------------------------
(* SetToSeq lists a finite set, each element at one place.                 *)
LEMMA ListedOnce ==
    ASSUME NEW S, IsFiniteSet(S)
    PROVE  /\ SetToSeq(S) \in Seq(S)
           /\ \A m, n \in 1 .. Len(SetToSeq(S)) : SetToSeq(S)[m] = SetToSeq(S)[n] => m = n
           /\ \A x \in S : \E n \in 1 .. Len(SetToSeq(S)) : SetToSeq(S)[n] = x
<1> DEFINE k == Cardinality(S)  s == SetToSeq(S)
<1>1. k \in Nat /\ ExistsBijection(1 .. k, S)
  BY FS_CardinalityType
<1>2. \E f \in [1 .. k -> S] : IsInjective(f)
  BY <1>1 DEF ExistsBijection, Bijection, Injection
<1>3. s \in [1 .. k -> S] /\ IsInjective(s)
  BY <1>2 DEF SetToSeq
<1> HIDE DEF s
<1>4. s \in Surjection(1 .. k, S)
  <2>1. s \in Injection(1 .. k, S)
    BY <1>3 DEF Injection
  <2>2. Cardinality(1 .. k) = Cardinality(S)
    <3>1. ExistsBijection(1 .. k, S) /\ IsFiniteSet(S)
      BY <1>1
    <3>2. IsFiniteSet(1 .. k)
      BY <1>1, FS_Interval
    <3> HIDE DEF k
    <3>3. Cardinality(1 .. k) = Cardinality(S)
      BY <3>1, <3>2, FS_Bijection
    <3> QED
      BY <3>3
  <2> QED
    BY <2>1, <2>2, FS_Injection
<1> HIDE DEF k
<1>5. s \in Seq(S) /\ Len(s) = k /\ DOMAIN s = 1 .. k
  BY <1>1, <1>3
<1>6. \A x \in S : \E n \in 1 .. Len(s) : s[n] = x
  BY <1>4, <1>5 DEF Surjection
<1> QED
  BY <1>3, <1>5, <1>6 DEF IsInjective, s

(* The Parrots that connect do so once each.                               *)
LEMMA ConnectsFacts ==
    ASSUME TypeOK, IsFiniteSet(parrots)
    PROVE  /\ Connects \in Seq(EsParrots)
           /\ Connects \in Seq(parrots \cap EsParrots)
           /\ \A p \in EsParrots :
                 /\ Len(Among(Connects, {p})) \in {0, 1}
                 /\ p \notin parrots => Len(Among(Connects, {p})) = 0
                 /\ p \in parrots /\ frame # 0 /\ loaded => Len(Among(Connects, {p})) = 1
<1> DEFINE S == parrots \cap EsParrots  s == SetToSeq(S)
<1>1. IsFiniteSet(S)
  BY FS_Subset
<1>2. /\ s \in Seq(S)
      /\ \A m, n \in 1 .. Len(s) : s[m] = s[n] => m = n
      /\ \A x \in S : \E n \in 1 .. Len(s) : s[n] = x
  BY <1>1, ListedOnce
<1>3. /\ Connects = s \/ Connects = <<>>
      /\ frame # 0 /\ loaded => Connects = s
  BY DEF Connects
<1> HIDE DEF s
<1>4. s \in Seq(EsParrots)
  BY <1>2
<1>5. ASSUME NEW p \in EsParrots
      PROVE  /\ Len(Among(s, {p})) \in {0, 1}
             /\ p \notin parrots => Len(Among(s, {p})) = 0
             /\ p \in parrots => Len(Among(s, {p})) = 1
  <2>1. Len(Among(s, {p})) \in {0, 1}
    BY <1>2, AmongOnce
  <2>2. ASSUME p \notin parrots PROVE Len(Among(s, {p})) = 0
    <3>1. S \cap {p} = {}
      BY <2>2
    <3> HIDE DEF S
    <3>2. Among(s, {p}) = <<>>
      BY <1>2, <3>1, AmongNone
    <3> QED
      BY <3>2
  <2>3. ASSUME p \in parrots PROVE Len(Among(s, {p})) # 0
    <3>1. PICK n \in 1 .. Len(s) : s[n] = p
      BY <1>2, <2>3
    <3> HIDE DEF S
    <3>2. s[n] \in {p} /\ s \in Seq(S)
      BY <1>2, <3>1
    <3>3. \E m \in 1 .. Len(Among(s, {p})) : Among(s, {p})[m] = s[n]
      BY <3>2, AmongKeeps
    <3> QED
      BY <3>3
  <2> QED
    BY <2>1, <2>2, <2>3
<1>6. \A p \in EsParrots : Len(Among(<<>>, {p})) = 0
  BY AmongEmpty
<1>7. CASE Connects = s
  BY <1>2, <1>4, <1>5, <1>7
<1>8. CASE Connects = <<>> /\ ~ (frame # 0 /\ loaded)
  BY <1>6, <1>8
<1> QED
  BY <1>3, <1>7, <1>8

-----------------------------------------------------------------------------
(***************************************************************************)
(* TypeOK                                                                  *)
(***************************************************************************)

LEMMA TypeInit == Init => TypeOK
<1> SUFFICES ASSUME Init PROVE TypeOK
  OBVIOUS
<1>1. <<>> \in Seq(Messages) /\ <<>> \in Seq(EsParrots)
  OBVIOUS
<1>2. 0 \in 0 .. MaxFrames /\ 0 \in 0 .. MaxEvents /\ 0 \in 0 .. Attempts + 1
  BY PageBoundsAssumption
<1> QED
  BY <1>1, <1>2 DEF Init, TypeOK, NoSources, Messages

(* TypeOK, and that the Parrots there are can be listed.                   *)
Typed == TypeOK /\ IsFiniteSet(parrots)

LEMMA TypeStep == Typed /\ [Next]_vars => Typed'
<1> SUFFICES ASSUME TypeOK, IsFiniteSet(parrots), [Next]_vars PROVE Typed'
  BY DEF Typed
<1>1. ASSUME NEW p \in EsParrots, ConstructEs(p) PROVE Typed'
  <2>1. IsFiniteSet(parrots')
    BY <1>1, FS_AddElement DEF ConstructEs
  <2>2. frames' \in 0 .. MaxFrames /\ frame' \in {0, frames'} /\ loaded' \in BOOLEAN
    <3>1. \/ frames < MaxFrames /\ frames' = frames + 1 /\ frame' = frames' /\ loaded' = FALSE
          \/ UNCHANGED <<frames, frame, loaded>>
      BY <1>1, Zenon DEF ConstructEs
    <3>2. frames \in 0 .. MaxFrames /\ frame \in {0, frames}
      BY DEF TypeOK
    <3>3. loaded' \in BOOLEAN
      BY <3>1, Zenon DEF TypeOK
    <3>4. frames' \in 0 .. MaxFrames /\ frame' \in {0, frames'}
      BY <3>1, <3>2, PageBoundsAssumption
    <3> QED
      BY <3>3, <3>4
  <2>3. parrots' \subseteq EsParrots \cup WsParrots /\ late' \subseteq parrots'
    BY <1>1 DEF ConstructEs, TypeOK
  <2>4. UNCHANGED <<sources, toPage, toFrame, events, strays, head, webSocket, loader, counter>>
    BY <1>1 DEF ConstructEs, socketVars
  <2>5. frame' = 0 => ~loaded' /\ sources = NoSources /\ toFrame = <<>> /\ strays = 0
    BY <1>1, PageBoundsAssumption DEF ConstructEs, TypeOK
  <2>6. NoSources' = NoSources
    BY DEF NoSources
  <2>7. /\ sources' \in [EsParrots -> Nat] /\ events' \in 0 .. MaxEvents
        /\ toPage' \in Seq([kind : {"iframeReady", "event"}, from : 1 .. MaxFrames])
        /\ toFrame' \in Seq(EsParrots)
        /\ strays' \in Nat /\ head' \in BOOLEAN /\ webSocket' \in BOOLEAN
        /\ loader' \in [WsParrots -> {"none", "waiting", "open", "failed"}]
        /\ counter' \in [WsParrots -> 0 .. Attempts + 1]
    BY <2>4 DEF TypeOK
  <2>8. frame' = 0 => ~loaded' /\ sources' = NoSources' /\ toFrame' = <<>> /\ strays' = 0
    BY <2>4, <2>5, <2>6
  <2> QED
    BY <2>1, <2>2, <2>3, <2>7, <2>8, Zenon DEF Typed, TypeOK
<1>2. ASSUME NEW p \in EsParrots, SourceEvent(p) PROVE Typed'
  <2>1. frame # 0 /\ frame \in 1 .. MaxFrames
    BY <1>2, PageBoundsAssumption DEF SourceEvent, TypeOK, NoSources
  <2>2. toPage' \in Seq(Messages)
    BY <1>2, <2>1 DEF SourceEvent, TypeOK, Event, Messages
  <2>3. events' \in 0 .. MaxEvents
    BY <1>2, PageBoundsAssumption DEF SourceEvent, TypeOK
  <2>4. UNCHANGED <<parrots, frames, frame, loaded, sources, toFrame, late, strays, head,
                  webSocket, loader, counter>>
    BY <1>2 DEF SourceEvent, socketVars
  <2> QED
    BY <2>2, <2>3, <2>4 DEF Typed, TypeOK, NoSources, Messages
<1>3. ASSUME NEW p \in EsParrots, CloseEs(p) PROVE Typed'
  <2>1. UNCHANGED <<parrots, frames, toPage, events, head, webSocket, loader, counter>>
    BY <1>3 DEF CloseEs, socketVars
  <2>2. frame' = 0 /\ loaded' = FALSE /\ sources' = NoSources /\ toFrame' = <<>> /\ late' = {}
        /\ strays' = 0
    BY <1>3 DEF CloseEs
  <2>3. NoSources' = NoSources /\ NoSources \in [EsParrots -> Nat] /\ <<>> \in Seq(EsParrots)
    BY DEF NoSources
  <2>4. frame' \in {0, frames'} /\ loaded' \in BOOLEAN /\ late' \subseteq parrots'
    BY <2>2
  <2> QED
    BY <2>1, <2>2, <2>3, <2>4 DEF Typed, TypeOK
<1>4. CASE FrameLoads
  <2>1. frame \in 1 .. MaxFrames
    BY <1>4, PageBoundsAssumption DEF FrameLoads, TypeOK
  <2>2. toPage' \in Seq(Messages)
    BY <1>4, <2>1 DEF FrameLoads, TypeOK, Ready, Messages
  <2>3. UNCHANGED <<parrots, frames, frame, sources, toFrame, events, late, strays, head,
                  webSocket, loader, counter>>
        /\ loaded' = TRUE
    BY <1>4 DEF FrameLoads, socketVars
  <2>4. frame' # 0
    BY <1>4 DEF FrameLoads
  <2> QED
    BY <2>2, <2>3, <2>4 DEF Typed, TypeOK, NoSources, Messages
<1>5. CASE Dispatch
  <2>1. toPage' \in Seq(Messages)
    <3>1. toPage \in Seq(Messages) /\ toPage # <<>> /\ toPage' = Tail(toPage)
      BY <1>5 DEF Dispatch, TypeOK, Messages
    <3> QED
      BY <3>1, TailFacts
  <2>2. toFrame' \in Seq(EsParrots)
    <3>1. Connects \in Seq(EsParrots)
      BY ConnectsFacts
    <3>2. toFrame \in Seq(EsParrots)
      BY DEF TypeOK
    <3> QED
      BY <1>5, <3>1, <3>2 DEF Dispatch
  <2>3. UNCHANGED <<parrots, frames, frame, loaded, sources, events, late, head,
                    webSocket, loader, counter>>
    BY <1>5 DEF Dispatch, socketVars
  <2>4. frame = 0 => toFrame' = <<>> /\ strays' = 0
    <3>1. frame = 0 => strays = 0 /\ toFrame = <<>> /\ loaded = FALSE
      BY DEF TypeOK
    <3> QED
      BY <1>5, <3>1 DEF Dispatch, Connects, CountStray
  <2>5. strays' \in Nat
    BY <1>5 DEF Dispatch, CountStray, TypeOK
  <2> QED
    BY <2>1, <2>2, <2>3, <2>4, <2>5 DEF Typed, TypeOK, NoSources, Messages
<1>6. CASE OpenEventSource
  <2>1. /\ toFrame # <<>> /\ toFrame \in Seq(EsParrots) /\ toFrame' = Tail(toFrame) /\ frame # 0
        /\ sources' = [sources EXCEPT ![Head(toFrame)] = @ + 1]
    BY <1>6 DEF OpenEventSource, TypeOK
  <2>2. toFrame' \in Seq(EsParrots) /\ Head(toFrame) \in EsParrots
    BY <2>1, TailFacts
  <2>3. sources' \in [EsParrots -> Nat]
    BY <2>1, <2>2 DEF TypeOK
  <2>4. UNCHANGED <<parrots, frames, frame, loaded, toPage, events, late, strays, head,
                  webSocket, loader, counter>>
    BY <1>6 DEF OpenEventSource, socketVars
  <2> QED
    BY <2>1, <2>2, <2>3, <2>4 DEF Typed, TypeOK
<1>7. ASSUME NEW p \in WsParrots, ConstructWs(p) PROVE Typed'
  <2>1. IsFiniteSet(parrots')
    BY <1>7, FS_AddElement DEF ConstructWs
  <2> QED
    BY <1>7, <2>1 DEF ConstructWs, LoaderAfterPolyfills, frameVars, Typed, TypeOK, NoSources
<1>8. ASSUME NEW p \in WsParrots, Loader(p) PROVE Typed'
  <2>1. counter' \in [WsParrots -> 0 .. Attempts + 1]
    <3>1. counter \in [WsParrots -> 0 .. Attempts + 1] /\ Attempts \in Nat
      BY PageBoundsAssumption DEF TypeOK
    <3>2. \/ counter' = counter
          \/ counter[p] <= Attempts /\ counter' = [counter EXCEPT ![p] = @ + 1]
      BY <1>8 DEF Loader
    <3>3. ASSUME counter[p] <= Attempts PROVE counter[p] + 1 \in 0 .. Attempts + 1
      BY ONLY <3>1, <3>3, p \in WsParrots
    <3> QED
      BY <3>1, <3>2, <3>3
  <2>2. loader' \in [WsParrots -> {"none", "waiting", "open", "failed"}]
    BY <1>8 DEF Loader, TypeOK
  <2>3. UNCHANGED <<parrots, frames, frame, loaded, sources, toPage, toFrame, events, late, strays,
                  head, webSocket>>
    BY <1>8 DEF Loader, frameVars
  <2> QED
    BY <2>1, <2>2, <2>3 DEF Typed, TypeOK, NoSources
<1>9. CASE PolyfillLoads
  BY <1>9 DEF PolyfillLoads, frameVars, Typed, TypeOK, NoSources
<1>10. CASE UNCHANGED vars
  BY <1>10 DEF vars, frameVars, socketVars, Typed, TypeOK, NoSources
<1> QED
  BY <1>1, <1>2, <1>3, <1>4, <1>5, <1>6, <1>7, <1>8, <1>9, <1>10 DEF Next

(* TypeOK: what belongs to an iframe is gone with it.                      *)
THEOREM TypeCorrect == Spec => []TypeOK
<1>1. Init => Typed
  <2>1. Init => IsFiniteSet(parrots)
    BY FS_EmptySet DEF Init
  <2> QED
    BY <2>1, TypeInit DEF Typed
<1>2. Typed => TypeOK
  BY DEF Typed
<1> QED
  BY <1>1, <1>2, TypeStep, PTL DEF Spec

-----------------------------------------------------------------------------
(***************************************************************************)
(* ConnectedOncePerFrame                                                   *)
(***************************************************************************)

(* The connects of a Parrot among those on their way.                      *)
LEMMA ParrotsAmong ==
    /\ \A s \in Seq(EsParrots), p \in EsParrots : Len(Among(s, {p})) \in Nat
    /\ \A s, t \in Seq(EsParrots), p \in EsParrots :
           Len(Among(s \o t, {p})) = Len(Among(s, {p})) + Len(Among(t, {p}))
<1>1. ASSUME NEW s \in Seq(EsParrots), NEW p \in EsParrots
      PROVE  Among(s, {p}) \in Seq(EsParrots)
  <2>1. Among(s, {p}) \in Seq(EsParrots \cap {p})
    BY AmongType
  <2> QED
    BY <2>1
<1>2. ASSUME NEW s \in Seq(EsParrots), NEW t \in Seq(EsParrots), NEW p \in EsParrots
      PROVE  Len(Among(s \o t, {p})) = Len(Among(s, {p})) + Len(Among(t, {p}))
  <2>1. Among(s \o t, {p}) = Among(s, {p}) \o Among(t, {p})
    BY AmongConcat
  <2>2. Among(s, {p}) \in Seq(EsParrots) /\ Among(t, {p}) \in Seq(EsParrots)
    BY <1>1
  <2> QED
    BY <2>1, <2>2
<1> QED
  BY <1>1, <1>2

LEMMA PageInit == Init => PageInv
<1> SUFFICES ASSUME Init PROVE PageInv
  OBVIOUS
<1>1. IsFiniteSet(parrots) /\ \A p \in EsParrots : Pending(p) = 0
  BY FS_EmptySet, AmongEmpty DEF Init, Pending
<1>2. Announced = <<>> /\ Len(Announced) = 0
  BY AmongEmpty DEF Init, Announced
<1>3. loaded = FALSE /\ late = {} /\ strays = 0 /\ Own = 0
      /\ \A p \in EsParrots : sources[p] = 0
  BY DEF Init, Own, NoSources
<1> QED
  BY <1>1, <1>2, <1>3 DEF PageInv

(* The numbers of the invariant are natural numbers.                       *)
LEMMA Numbers ==
    ASSUME TypeOK
    PROVE  /\ toPage \in Seq(Messages) /\ toFrame \in Seq(EsParrots)
           /\ Announced \in Seq(Announcements)
           /\ Len(Announced) \in Nat /\ Own \in {0, 1} /\ strays \in Nat /\ frames \in Nat
           /\ \A p \in EsParrots : Pending(p) \in Nat /\ sources[p] \in Nat
<1>1. toPage \in Seq(Messages) /\ toFrame \in Seq(EsParrots)
  BY DEF TypeOK, Messages
<1>2. Announced \in Seq(Messages \cap Announcements)
  BY <1>1, AmongType DEF Announced
<1>3. Messages \cap Announcements = Announcements
  BY DEF Announcements
<1>4. Announced \in Seq(Announcements)
  BY <1>2, <1>3
<1>5. ASSUME NEW p \in EsParrots PROVE Pending(p) \in Nat /\ sources[p] \in Nat
  <2>1. Among(toFrame, {p}) \in Seq(EsParrots \cap {p})
    BY <1>1, AmongType
  <2> QED
    BY <2>1 DEF Pending, TypeOK
<1>6. Len(Announced) \in Nat /\ Own \in {0, 1} /\ strays \in Nat /\ frames \in Nat
  BY <1>4, PageBoundsAssumption DEF Own, TypeOK
<1> QED
  BY <1>1, <1>4, <1>5, <1>6

(* An announcement is one of its iframe, and of no other.                  *)
LEMMA AnnouncementIsReady ==
    \A m \in Announcements : /\ m \in Messages /\ m.from \in 1 .. MaxFrames
                             /\ \A f : m = Ready(f) <=> m.from = f
  BY DEF Announcements, Messages, Ready

(* Nothing on its way to the page is an announcement, once that of the     *)
(* iframe in the page was dispatched.                                      *)
LEMMA NothingBehind ==
    ASSUME TypeOK, PageInv
    PROVE  IsAnnounced <=> loaded /\ Announced = <<>>
<1>0. Announced \in Seq(Announcements) /\ toPage \in Seq(Messages)
  BY Numbers
<1>1. ASSUME IsAnnounced, Announced # <<>> PROVE FALSE
  <2> DEFINE q == Announced
  <2>1. loaded /\ Ready(frame) \notin Range(toPage)
    BY <1>1 DEF IsAnnounced
  <2>2. PICK h \in [1 .. Len(q) -> 1 .. Len(toPage)] : \A n \in 1 .. Len(q) : q[n] = toPage[h[n]]
    <3>1. \E h \in [1 .. Len(Among(toPage, Announcements)) -> 1 .. Len(toPage)] :
              \A n \in 1 .. Len(Among(toPage, Announcements)) :
                  Among(toPage, Announcements)[n] = toPage[h[n]]
      BY <1>0, AmongFrom
    <3> QED
      BY <3>1 DEF Announced
  <2>3. Len(q) \in 1 .. Len(q)
    <3>1. q \in Seq(Announcements) /\ q # <<>>
      BY <1>0, <1>1
    <3> HIDE DEF q
    <3> QED
      BY <3>1
  <2>4. q[Len(q)] = Ready(frame)
    BY <2>1, <2>3 DEF PageInv
  <2> HIDE DEF q
  <2>5. PICK k \in 1 .. Len(toPage) : k = h[Len(q)] /\ toPage[k] = q[Len(q)]
    BY <2>2, <2>3
  <2>6. k \in DOMAIN toPage /\ toPage[k] = Ready(frame)
    BY <1>0, <2>4, <2>5
  <2> QED
    BY <2>1, <2>6 DEF Range
<1>2. ASSUME loaded, Announced = <<>> PROVE Ready(frame) \notin Range(toPage)
  <2>1. SUFFICES ASSUME NEW n \in DOMAIN toPage, toPage[n] = Ready(frame) PROVE FALSE
    BY DEF Range
  <2>2. n \in 1 .. Len(toPage) /\ toPage[n] \in Announcements
    BY <1>0, <2>1 DEF Announcements, Ready
  <2>3. \E m \in 1 .. Len(Among(toPage, Announcements)) : TRUE
    BY <1>0, <2>2, AmongKeeps
  <2> QED
    BY <1>2, <2>3 DEF Announced
<1> QED
  BY <1>1, <1>2 DEF IsAnnounced

(* Dispatch: an announcement gives every Parrot one connect at most, and   *)
(* it is a stray one or the last there is.                                 *)
LEMMA DispatchKeeps == ASSUME TypeOK, PageInv, Dispatch PROVE PageInv'
<1> DEFINE announces == Head(toPage).kind = "iframeReady"
<1>0. /\ toPage \in Seq(Messages) /\ toFrame \in Seq(EsParrots)
      /\ Announced \in Seq(Announcements)
      /\ Len(Announced) \in Nat /\ Own \in {0, 1} /\ strays \in Nat /\ frames \in Nat
      /\ \A p \in EsParrots : Pending(p) \in Nat /\ sources[p] \in Nat
  BY Numbers
<1>1. /\ toPage # <<>> /\ toPage' = Tail(toPage)
      /\ toFrame' = toFrame \o (IF announces THEN Connects ELSE <<>>)
      /\ CountStray(Head(toPage))
      /\ UNCHANGED <<parrots, frames, frame, loaded, sources, late>>
  BY DEF Dispatch
<1>2. Head(toPage) \in Messages /\ (Head(toPage) \in Announcements <=> announces)
  BY <1>0, <1>1, TailFacts DEF Announcements
<1>3. Ready(frame)' = Ready(frame)
  BY <1>1 DEF Ready
<1> HIDE DEF announces
<1>4. CASE announces
  <2>1. /\ Announced # <<>> /\ Announced' = Tail(Announced)
        /\ Announced[1] = Head(toPage)
    <3> DEFINE m == Head(toPage)  q == Among(Tail(toPage), Announcements)
    <3>1. m \in Messages /\ q \in Seq(Messages) /\ Announced = <<m>> \o q /\ Announced' = q
      BY <1>0, <1>1, <1>2, <1>4, AmongHead DEF Announced
    <3> HIDE DEF m, q
    <3>2. <<m>> \o q # <<>> /\ Tail(<<m>> \o q) = q /\ (<<m>> \o q)[1] = m
      BY <3>1
    <3> QED
      BY <3>1, <3>2 DEF m
  <2>2. /\ Len(Announced) >= 1 /\ Len(Announced') = Len(Announced) - 1
        /\ \A n \in 1 .. Len(Announced') : Announced'[n] = Announced[n + 1]
        /\ Announced' = <<>> <=> Len(Announced) = 1
    <3> DEFINE q == Announced
    <3>1. q \in Seq(Announcements) /\ q # <<>>
      BY <1>0, <2>1
    <3> HIDE DEF q
    <3>2. /\ Len(q) >= 1 /\ Len(Tail(q)) = Len(q) - 1
          /\ \A n \in 1 .. Len(Tail(q)) : Tail(q)[n] = q[n + 1]
      BY <3>1
    <3>3. Tail(q) = <<>> <=> Len(q) = 1
      <4>1. Tail(q) \in Seq(Announcements) /\ Len(Tail(q)) = Len(q) - 1 /\ Len(q) \in Nat
        BY <3>1, TailFacts
      <4>2. Tail(q) = <<>> <=> Len(Tail(q)) = 0
        <5> DEFINE t == Tail(q)
        <5>1. t \in Seq(Announcements)
          BY <4>1
        <5> HIDE DEF t
        <5>2. t = <<>> <=> Len(t) = 0
          BY <5>1
        <5> QED
          BY <5>2 DEF t
      <4> QED
        BY <4>1, <4>2
    <3> QED
      BY <2>1, <3>2, <3>3 DEF q
  <2>3. late = {} /\ Own = 0
    BY <2>1 DEF PageInv, Own
  <2>4. strays' + Own' = IF loaded THEN strays + 1 ELSE strays
    <3>1. CASE ~loaded
      BY <1>0, <1>1, <3>1 DEF CountStray, Own
    <3>2. CASE loaded /\ Len(Announced) = 1
      <4>1. Announced[1] = Ready(frame)
        BY <3>2 DEF PageInv
      <4>2. strays' = strays
        BY <1>1, <2>1, <4>1 DEF CountStray, Ready
      <4>3. Own' = 1
        BY <1>1, <2>2, <3>2 DEF Own
      <4> QED
        BY <3>2, <4>2, <4>3
    <3>3. CASE loaded /\ Len(Announced) # 1
      <4>1. Announced[1] # Ready(frame)
        BY <1>0, <2>2, <3>3 DEF PageInv
      <4>2. Head(toPage).from # frame
        BY <1>2, <1>4, <2>1, <4>1, AnnouncementIsReady
      <4>3. strays' = strays + 1
        BY <1>1, <1>4, <3>3, <4>2 DEF CountStray, announces
      <4>4. Own' = 0
        BY <2>2, <3>3 DEF Own
      <4> QED
        BY <1>0, <3>3, <4>3, <4>4
    <3> QED
      BY <3>1, <3>2, <3>3
  <2>5. ASSUME NEW p \in EsParrots
        PROVE  /\ Pending(p)' <= Pending(p) + IF loaded THEN 1 ELSE 0
               /\ p \notin parrots => Pending(p)' = Pending(p)
    <3> DEFINE k == Len(Among(Connects, {p}))
    <3>1. /\ Connects \in Seq(EsParrots) /\ k \in {0, 1}
          /\ p \notin parrots => k = 0
      BY ConnectsFacts DEF PageInv
    <3>2. ~loaded => k = 0
      BY AmongEmpty DEF Connects
    <3>3. Len(Among(toFrame \o Connects, {p})) = Len(Among(toFrame, {p})) + Len(Among(Connects, {p}))
      <4>1. toFrame \in Seq(EsParrots) /\ Connects \in Seq(EsParrots)
        BY <1>0, <3>1
      <4> HIDE DEF Connects, k
      <4> QED
        BY <4>1, ParrotsAmong
    <3>4. Pending(p)' = Pending(p) + k
      BY <1>1, <1>4, <3>3 DEF Pending
    <3>5. Pending(p) \in Nat
      BY <1>0
    <3> HIDE DEF k
    <3> QED
      BY <3>1, <3>2, <3>4, <3>5
  <2>6. ASSUME NEW p \in EsParrots PROVE sources'[p] + Pending(p)' <= strays' + Own'
    <3> DEFINE one == IF loaded THEN 1 ELSE 0
    <3>1. sources[p] + Pending(p) <= strays
      BY <1>0, <2>3 DEF PageInv
    <3>2. strays' + Own' = strays + one
      BY <1>0, <2>4
    <3>3. one \in {0, 1} /\ Pending(p)' <= Pending(p) + one /\ sources'[p] = sources[p]
      BY <1>1, <2>5
    <3>4. Pending(p)' \in Nat
      BY <1>0, ConnectsFacts, ParrotsAmong, <1>1 DEF Pending, PageInv
    <3> HIDE DEF one
    <3> QED
      BY <1>0, <3>1, <3>2, <3>3, <3>4
  <2>7. ASSUME NEW n \in 1 .. Len(Announced')
        PROVE  /\ Announced'[n].from <= frames
               /\ Announced'[n] = Ready(frame) <=> loaded /\ n = Len(Announced')
    <3>1. n + 1 \in 1 .. Len(Announced) /\ (n = Len(Announced') <=> n + 1 = Len(Announced))
      BY <1>0, <2>2
    <3>2. /\ Announced[n + 1].from <= frames
          /\ Announced[n + 1] = Ready(frame) <=> loaded /\ n + 1 = Len(Announced)
      BY <3>1 DEF PageInv
    <3> QED
      BY <2>2, <3>1, <3>2
  <2>8. \A p \in EsParrots :
            p \notin parrots' \/ p \in late' => sources'[p] = 0 /\ Pending(p)' = 0
    BY <1>1, <2>3, <2>5 DEF PageInv
  <2> QED
    BY <1>1, <1>3, <2>3, <2>6, <2>7, <2>8 DEF PageInv
<1>5. CASE ~announces
  <2>1. Announced' = Announced
    BY <1>0, <1>1, <1>2, <1>5, AmongTail DEF Announced
  <2>2. toFrame' = toFrame
    BY <1>0, <1>1, <1>5, ConcatEmpty
  <2>3. strays' = strays /\ Own' = Own /\ \A p \in EsParrots : Pending(p)' = Pending(p)
    BY <1>1, <1>5, <2>1, <2>2 DEF Pending, Own, CountStray, announces
  <2> QED
    BY <1>1, <1>3, <2>1, <2>3 DEF PageInv
<1> QED
  BY <1>4, <1>5

LEMMA PageStep == TypeOK /\ TypeOK' /\ PageInv /\ [Next]_vars => PageInv'
<1> SUFFICES ASSUME TypeOK, TypeOK', PageInv, [Next]_vars PROVE PageInv'
  OBVIOUS
<1>0. /\ toPage \in Seq(Messages) /\ toFrame \in Seq(EsParrots)
      /\ Announced \in Seq(Announcements)
      /\ Len(Announced) \in Nat /\ Own \in {0, 1} /\ strays \in Nat /\ frames \in Nat
      /\ \A p \in EsParrots : Pending(p) \in Nat /\ sources[p] \in Nat
      /\ frame \in {0, frames}
  BY Numbers DEF TypeOK
<1>1. ASSUME UNCHANGED <<frames, frame, loaded, sources, toPage, toFrame, late, strays>>,
             IsFiniteSet(parrots'), parrots \subseteq parrots'
      PROVE  PageInv'
  BY <1>1 DEF PageInv, Pending, Announced, Own, Ready
<1>2. ASSUME NEW c \in EsParrots, ConstructEs(c) PROVE PageInv'
  <2>1. /\ c \notin parrots /\ parrots' = parrots \cup {c}
        /\ UNCHANGED <<sources, toPage, toFrame, strays>>
    BY <1>2 DEF ConstructEs
  <2>2. IsFiniteSet(parrots')
    BY <2>1, FS_AddElement DEF PageInv
  <2>3. Announced' = Announced /\ \A p \in EsParrots : Pending(p)' = Pending(p)
    BY <2>1 DEF Announced, Pending
  <2>4. CASE frame = 0
    <3>1. frames' = frames + 1 /\ frame' = frames + 1 /\ loaded' = FALSE /\ loaded = FALSE
          /\ late' = {} /\ late = {}
      BY <1>2, <2>4 DEF ConstructEs, PageInv, TypeOK
    <3>2. Own = 0 /\ Own' = 0
      BY <3>1 DEF Own
    <3>3. \A p \in EsParrots :
              /\ sources'[p] + Pending(p)' <= strays' + Own'
              /\ p \notin parrots' \/ p \in late' => sources'[p] = 0 /\ Pending(p)' = 0
      BY <2>1, <2>3, <3>1, <3>2 DEF PageInv
    <3>4. ASSUME NEW n \in 1 .. Len(Announced)
          PROVE  Announced[n].from <= frames + 1 /\ Announced[n] # Ready(frames + 1)
      <4>1. Announced[n] \in Announcements /\ Announced[n].from <= frames
        BY <1>0 DEF PageInv
      <4>2. Announced[n].from \in Nat
        BY <4>1, AnnouncementIsReady
      <4> QED
        BY <1>0, <4>1, <4>2, AnnouncementIsReady
    <3>5. Ready(frame)' = Ready(frames + 1)
      BY <3>1 DEF Ready
    <3> QED
      BY <2>2, <2>3, <3>1, <3>3, <3>4, <3>5 DEF PageInv
  <2>5. CASE frame # 0
    <3>1. /\ UNCHANGED <<frames, frame, loaded>>
          /\ late' = IF IsAnnounced THEN late \cup {c} ELSE late
      BY <1>2, <2>5 DEF ConstructEs
    <3>2. late' # {} => frame # 0 /\ loaded /\ Announced = <<>>
      BY <2>5, <3>1, NothingBehind DEF PageInv
    <3>3. \A p \in EsParrots :
              p \notin parrots' \/ p \in late' => sources[p] = 0 /\ Pending(p) = 0
      BY <2>1, <3>1 DEF PageInv
    <3>4. Own' = Own /\ Ready(frame)' = Ready(frame)
      BY <2>3, <3>1 DEF Own, Ready
    <3> QED
      BY <2>1, <2>2, <2>3, <3>1, <3>2, <3>3, <3>4 DEF PageInv
  <2> QED
    BY <2>4, <2>5
<1>3. ASSUME NEW c \in EsParrots, SourceEvent(c) PROVE PageInv'
  <2>1. /\ toPage' = Append(toPage, Event(frame))
        /\ UNCHANGED <<parrots, frames, frame, loaded, sources, toFrame, late, strays>>
    BY <1>3 DEF SourceEvent
  <2>2. Event(frame) \in Messages /\ Event(frame) \notin Announcements
    BY <1>3, PageBoundsAssumption DEF SourceEvent, TypeOK, NoSources, Event, Messages, Announcements
  <2>3. Announced' = Announced
    <3>1. Among(Append(toPage, Event(frame)), Announcements)
              = AppendIf(Announced, Event(frame), Announcements)
      BY <1>0, <2>2, AmongAppend DEF Announced
    <3> QED
      BY <2>1, <2>2, <3>1, Zenon DEF Announced, AppendIf
  <2>4. Own' = Own /\ Ready(frame)' = Ready(frame)
        /\ \A p \in EsParrots : Pending(p)' = Pending(p)
    BY <2>1, <2>3 DEF Own, Ready, Pending
  <2> QED
    BY <2>1, <2>3, <2>4 DEF PageInv
<1>4. ASSUME NEW c \in EsParrots, CloseEs(c) PROVE PageInv'
  <2>1. /\ frame' = 0 /\ loaded' = FALSE /\ sources' = NoSources /\ toFrame' = <<>> /\ late' = {}
        /\ strays' = 0 /\ UNCHANGED <<parrots, frames, toPage>>
    BY <1>4 DEF CloseEs
  <2>2. Announced' = Announced /\ Own' = 0 /\ Ready(frame)' = Ready(0)
        /\ \A p \in EsParrots : Pending(p)' = 0 /\ sources'[p] = 0
    BY <2>1, AmongEmpty DEF Announced, Own, Pending, NoSources, Ready
  <2>3. ASSUME NEW n \in 1 .. Len(Announced) PROVE Announced[n] # Ready(0)
    <3>1. Announced[n] \in Announcements
      BY <1>0
    <3>2. Announced[n].from # 0
      BY <3>1, AnnouncementIsReady
    <3> QED
      BY <3>1, <3>2, AnnouncementIsReady
  <2> QED
    BY <2>1, <2>2, <2>3 DEF PageInv
<1>5. CASE FrameLoads
  <2>1. /\ frame # 0 /\ ~loaded /\ loaded' = TRUE /\ toPage' = Append(toPage, Ready(frame))
        /\ UNCHANGED <<parrots, frames, frame, sources, toFrame, late, strays>>
    BY <1>5 DEF FrameLoads
  <2>2. Ready(frame) \in Messages /\ Ready(frame) \in Announcements
    BY <2>1, PageBoundsAssumption DEF TypeOK, Ready, Messages, Announcements
  <2>3. Announced' = Append(Announced, Ready(frame))
    <3>1. Among(Append(toPage, Ready(frame)), Announcements)
              = AppendIf(Announced, Ready(frame), Announcements)
      BY <1>0, <2>2, AmongAppend DEF Announced
    <3> QED
      BY <2>1, <2>2, <3>1, Zenon DEF Announced, AppendIf
  <2>4. Own = 0 /\ Own' = 0 /\ Ready(frame)' = Ready(frame) /\ late' = {}
        /\ \A p \in EsParrots : Pending(p)' = Pending(p)
    <3>1. Announced' # <<>>
      <4> DEFINE q == Announced  m == Ready(frame)
      <4>1. q \in Seq(Announcements) /\ m \in Announcements /\ Announced' = Append(q, m)
        BY <1>0, <2>2, <2>3
      <4> HIDE DEF q, m
      <4> QED
        BY <4>1
    <3> QED
      BY <2>1, <3>1 DEF Own, Ready, Pending, PageInv
  <2>5. ASSUME NEW n \in 1 .. Len(Announced')
        PROVE  /\ Announced'[n].from <= frames
               /\ Announced'[n] = Ready(frame) <=> n = Len(Announced')
    <3>1. /\ Len(Announced') = Len(Announced) + 1
          /\ \A m \in 1 .. Len(Announced) : Announced'[m] = Announced[m]
          /\ Announced'[Len(Announced) + 1] = Ready(frame)
      <4> DEFINE q == Announced  m == Ready(frame)
      <4>1. q \in Seq(Announcements) /\ m \in Announcements
        BY <1>0, <2>2
      <4> HIDE DEF q, m
      <4>2. /\ Len(Append(q, m)) = Len(q) + 1
            /\ \A k \in 1 .. Len(q) : Append(q, m)[k] = q[k]
            /\ Append(q, m)[Len(q) + 1] = m
        BY <4>1
      <4> QED
        BY <2>3, <4>2 DEF q, m
    <3>2. CASE n \in 1 .. Len(Announced)
      <4>1. Announced[n].from <= frames /\ Announced[n] # Ready(frame)
        BY <2>1, <3>2 DEF PageInv
      <4>2. n # Len(Announced')
        BY <1>0, <3>1, <3>2
      <4> QED
        BY <3>1, <3>2, <4>1, <4>2
    <3>3. CASE n = Len(Announced) + 1
      <4>1. Ready(frame).from = frame /\ frame <= frames
        BY <1>0 DEF Ready
      <4>2. Announced'[n] = Ready(frame) /\ n = Len(Announced')
        BY <3>1, <3>3
      <4> QED
        BY <4>1, <4>2
    <3>4. n \in 1 .. Len(Announced) \/ n = Len(Announced) + 1
      BY <1>0, <3>1
    <3> QED
      BY <3>2, <3>3, <3>4
  <2>6. \A p \in EsParrots :
            /\ sources'[p] + Pending(p)' <= strays' + Own'
            /\ p \notin parrots' \/ p \in late' => sources'[p] = 0 /\ Pending(p)' = 0
    BY <2>1, <2>4 DEF PageInv
  <2> QED
    BY <2>1, <2>4, <2>5, <2>6 DEF PageInv
<1>6. CASE Dispatch
  BY <1>0, <1>6, DispatchKeeps
<1>7. CASE OpenEventSource
  <2>0. PICK c \in EsParrots : c = Head(toFrame)
    BY <1>0, <1>7, TailFacts DEF OpenEventSource
  <2>1. /\ toFrame # <<>> /\ toFrame' = Tail(toFrame)
        /\ sources' = [sources EXCEPT ![c] = @ + 1]
        /\ UNCHANGED <<parrots, frames, frame, loaded, toPage, late, strays>>
    BY <1>7, <2>0 DEF OpenEventSource
  <2>2. c \in EsParrots
    OBVIOUS
  <2>3. ASSUME NEW p \in EsParrots, p # c
        PROVE  sources'[p] = sources[p] /\ Pending(p)' = Pending(p)
    <3>1. Head(toFrame) \notin {p}
      BY <2>0, <2>3
    <3>2. Among(Tail(toFrame), {p}) = Among(toFrame, {p})
      <4>1. toFrame \in Seq(EsParrots) /\ toFrame # <<>>
        BY <1>0, <2>1
      <4> QED
        BY ONLY <3>1, <4>1, AmongTail
    <3> QED
      BY <2>1, <2>2, <2>3, <3>2 DEF Pending, TypeOK
  <2>4. sources'[c] = sources[c] + 1 /\ Pending(c) = Pending(c)' + 1
    <3>1. Head(toFrame) \in {c}
      BY <2>0
    <3>2. Len(Among(toFrame, {c})) = Len(Among(Tail(toFrame), {c})) + 1
      <4>1. toFrame \in Seq(EsParrots) /\ toFrame # <<>>
        BY <1>0, <2>1
      <4> QED
        BY ONLY <3>1, <4>1, AmongTail
    <3>3. Pending(c) = Pending(c)' + 1
      BY <2>1, <3>2 DEF Pending
    <3>4. sources'[c] = sources[c] + 1
      BY <2>1, <2>2 DEF TypeOK
    <3> QED
      BY <3>3, <3>4
  <2>5. \A p \in EsParrots : Pending(p)' \in Nat /\ sources'[p] \in Nat
    BY ParrotsAmong DEF TypeOK, Pending
  <2>6. Announced' = Announced /\ Own' = Own /\ Ready(frame)' = Ready(frame)
    BY <2>1 DEF Announced, Own, Ready
  <2>7. ASSUME NEW p \in EsParrots
        PROVE  /\ sources'[p] + Pending(p)' = sources[p] + Pending(p)
               /\ p \notin parrots' \/ p \in late' => sources'[p] = 0 /\ Pending(p)' = 0
    <3>1. CASE p = c
      <4>1. Pending(c) # 0
        BY <1>0, <2>2, <2>4, <2>5
      <4>2. c \in parrots /\ c \notin late
        BY <2>2, <4>1 DEF PageInv
      <4>3. sources'[c] + Pending(c)' = sources[c] + Pending(c)
        <5>1. sources[c] \in Nat /\ Pending(c) \in Nat /\ Pending(c)' \in Nat
          BY <1>0, <2>2, <2>5
        <5> QED
          BY <2>4, <5>1
      <4> QED
        BY <2>1, <3>1, <4>2, <4>3
    <3>2. CASE p # c
      BY <2>1, <2>3, <3>2 DEF PageInv
    <3> QED
      BY <3>1, <3>2
  <2>8. \A p \in EsParrots : sources'[p] + Pending(p)' <= strays' + Own'
    BY <2>1, <2>6, <2>7 DEF PageInv
  <2> QED
    BY <2>1, <2>6, <2>7, <2>8 DEF PageInv
<1>8. ASSUME NEW c \in WsParrots, ConstructWs(c) PROVE PageInv'
  <2>1. parrots' = parrots \cup {c} /\ UNCHANGED frameVars
    BY <1>8 DEF ConstructWs
  <2>2. IsFiniteSet(parrots')
    BY <2>1, FS_AddElement DEF PageInv
  <2> QED
    BY <1>1, <2>1, <2>2 DEF frameVars
<1>9. ASSUME NEW c \in WsParrots, Loader(c) PROVE PageInv'
  BY <1>1, <1>9 DEF Loader, frameVars, PageInv
<1>10. CASE PolyfillLoads
  BY <1>1, <1>10 DEF PolyfillLoads, frameVars, PageInv
<1>11. CASE UNCHANGED vars
  BY <1>1, <1>11 DEF vars, frameVars, PageInv
<1> QED
  BY <1>2, <1>3, <1>4, <1>5, <1>6, <1>7, <1>8, <1>9, <1>10, <1>11 DEF Next

-----------------------------------------------------------------------------
(* Why no Parrot is left out: one that listens when the iframe announces   *)
(* itself has a connect on its way, or what it opened, once the            *)
(* announcement was dispatched.                                            *)
Answered ==
    loaded => \A p \in (parrots \cap EsParrots) \ late :
                  Ready(frame) \in Range(toPage) \/ sources[p] + Pending(p) > 0

(* What is appended to the messages for the page, or behind their head,    *)
(* stays there.                                                            *)
LEMMA RangeFacts ==
    ASSUME NEW s \in Seq(Messages), NEW m \in Range(s)
    PROVE  /\ \A x \in Messages : m \in Range(Append(s, x))
           /\ m # Head(s) => s # <<>> /\ m \in Range(Tail(s))
<1>1. PICK n \in DOMAIN s : s[n] = m
  BY DEF Range
<1>2. s # <<>>
  BY <1>1
<1>3. ASSUME NEW x \in Messages PROVE m \in Range(Append(s, x))
  BY <1>1, AppendFacts DEF Range
<1>4. ASSUME m # Head(s) PROVE m \in Range(Tail(s))
  <2>1. n # 1
    BY <1>1, <1>2, <1>4, TailFacts
  <2>2. n - 1 \in DOMAIN Tail(s) /\ Tail(s)[n - 1] = m
    BY <1>1, <1>2, <2>1, TailFacts
  <2> QED
    BY <2>2 DEF Range
<1> QED
  BY <1>2, <1>3, <1>4

LEMMA AnsweredStep ==
    TypeOK /\ TypeOK' /\ PageInv /\ Answered /\ [Next]_vars => Answered'
<1> SUFFICES ASSUME TypeOK, TypeOK', PageInv, Answered, [Next]_vars,
                    loaded', NEW p \in (parrots' \cap EsParrots) \ late'
             PROVE  Ready(frame)' \in Range(toPage') \/ sources'[p] + Pending(p)' > 0
  BY DEF Answered
<1>0. /\ toPage \in Seq(Messages) /\ toFrame \in Seq(EsParrots)
      /\ Pending(p) \in Nat /\ sources[p] \in Nat
  BY Numbers
<1>1. ASSUME UNCHANGED <<frame, loaded, sources, toPage, toFrame, late>>,
             p \in parrots
      PROVE  Ready(frame)' \in Range(toPage') \/ sources'[p] + Pending(p)' > 0
  BY <1>1 DEF Answered, Pending, Ready
<1>2. ASSUME NEW c \in EsParrots, ConstructEs(c)
      PROVE  Ready(frame)' \in Range(toPage') \/ sources'[p] + Pending(p)' > 0
  <2>1. /\ parrots' = parrots \cup {c} /\ UNCHANGED <<frame, loaded, sources, toPage, toFrame>>
        /\ late' = IF IsAnnounced THEN late \cup {c} ELSE late
    BY <1>2 DEF ConstructEs
  <2>2. CASE IsAnnounced
    <3>1. p \in (parrots \cap EsParrots) \ late
      BY <2>1, <2>2
    <3> QED
      BY <2>1, <3>1 DEF Answered, Pending, Ready
  <2>3. CASE ~IsAnnounced
    BY <2>1, <2>3 DEF IsAnnounced, Ready
  <2> QED
    BY <2>2, <2>3
<1>3. ASSUME NEW c \in EsParrots, SourceEvent(c)
      PROVE  Ready(frame)' \in Range(toPage') \/ sources'[p] + Pending(p)' > 0
  <2>1. /\ toPage' = Append(toPage, Event(frame))
        /\ UNCHANGED <<parrots, frame, loaded, sources, toFrame, late>>
    BY <1>3 DEF SourceEvent
  <2>2. Event(frame) \in Messages
    BY <1>3, PageBoundsAssumption DEF SourceEvent, TypeOK, NoSources, Event, Messages
  <2>3. Ready(frame) \in Range(toPage) => Ready(frame) \in Range(toPage')
    BY <1>0, <2>1, <2>2, RangeFacts
  <2> QED
    BY <2>1, <2>3 DEF Answered, Pending, Ready
<1>4. CASE \E c \in EsParrots : CloseEs(c)
  BY <1>4 DEF CloseEs
<1>5. CASE FrameLoads
  <2>1. toPage' = Append(toPage, Ready(frame)) /\ Ready(frame)' = Ready(frame)
        /\ Ready(frame) \in Messages
    BY <1>5, PageBoundsAssumption DEF FrameLoads, TypeOK, Ready, Messages
  <2>2. Len(toPage) + 1 \in DOMAIN toPage' /\ toPage'[Len(toPage) + 1] = Ready(frame)
    BY <1>0, <2>1, AppendFacts
  <2> QED
    BY <2>1, <2>2 DEF Range
<1>6. CASE Dispatch
  <2> DEFINE announces == Head(toPage).kind = "iframeReady"
  <2>1. /\ toPage # <<>> /\ toPage' = Tail(toPage)
        /\ toFrame' = toFrame \o (IF announces THEN Connects ELSE <<>>)
        /\ UNCHANGED <<parrots, frame, loaded, sources, late>>
    BY <1>6 DEF Dispatch
  <2>2. Ready(frame)' = Ready(frame) /\ (Ready(frame) = Head(toPage) => announces)
    BY <2>1 DEF Ready
  <2>3. Ready(frame) \in Range(toPage) /\ Ready(frame) # Head(toPage)
            => Ready(frame) \in Range(toPage')
    BY <1>0, <2>1, RangeFacts
  <2> HIDE DEF announces
  <2>4. CASE announces
    <3>1. p \in parrots /\ p \in EsParrots /\ frame # 0 /\ loaded /\ IsFiniteSet(parrots)
      BY <2>1 DEF PageInv, TypeOK
    <3>2. Connects \in Seq(EsParrots) /\ Len(Among(Connects, {p})) = 1
      BY <3>1, ConnectsFacts
    <3>3. Pending(p)' = Len(Among(toFrame \o Connects, {p}))
      BY <2>1, <2>4 DEF Pending
    <3>4. Len(Among(toFrame \o Connects, {p})) = Len(Among(toFrame, {p})) + Len(Among(Connects, {p}))
      <4> HIDE DEF Connects
      <4> QED
        BY <1>0, <3>2, ParrotsAmong
    <3>5. Pending(p)' = Pending(p) + 1
      BY <3>2, <3>3, <3>4 DEF Pending
    <3> QED
      BY <1>0, <2>1, <3>5
  <2>5. CASE ~announces
    <3>1. toFrame' = toFrame
      BY <1>0, <2>1, <2>5, ConcatEmpty
    <3> QED
      BY <2>1, <2>2, <2>3, <2>5, <3>1 DEF Answered, Pending
  <2> QED
    BY <2>4, <2>5
<1>7. CASE OpenEventSource
  <2>1. /\ toFrame # <<>> /\ toFrame' = Tail(toFrame)
        /\ sources' = [sources EXCEPT ![Head(toFrame)] = @ + 1]
        /\ UNCHANGED <<parrots, frame, loaded, toPage, late>>
    BY <1>7 DEF OpenEventSource
  <2>2. Pending(p)' \in Nat /\ sources'[p] \in Nat
    BY ParrotsAmong DEF TypeOK, Pending
  <2>3. CASE Head(toFrame) = p
    <3>1. sources'[p] = sources[p] + 1
      BY <2>1, <2>3 DEF TypeOK
    <3> QED
      BY <1>0, <2>2, <3>1
  <2>4. CASE Head(toFrame) # p
    <3>1. Among(Tail(toFrame), {p}) = Among(toFrame, {p})
      BY <1>0, <2>1, <2>4, AmongTail
    <3>2. sources'[p] = sources[p] /\ Pending(p)' = Pending(p)
      BY <2>1, <2>4, <3>1 DEF Pending, TypeOK
    <3> QED
      BY <2>1, <3>2 DEF Answered, Ready
  <2> QED
    BY <2>3, <2>4
<1>8. ASSUME NEW c \in WsParrots, ConstructWs(c)
      PROVE  Ready(frame)' \in Range(toPage') \/ sources'[p] + Pending(p)' > 0
  <2>1. p \in parrots
    BY <1>8, ServicesAssumption DEF ConstructWs
  <2> QED
    BY <1>1, <1>8, <2>1 DEF ConstructWs, frameVars
<1>9. CASE \E c \in WsParrots : Loader(c)
  BY <1>1, <1>9 DEF Loader, frameVars
<1>10. CASE PolyfillLoads
  BY <1>1, <1>10 DEF PolyfillLoads, frameVars
<1>11. CASE UNCHANGED vars
  BY <1>1, <1>11 DEF vars, frameVars
<1> QED
  BY <1>2, <1>3, <1>4, <1>5, <1>6, <1>7, <1>8, <1>9, <1>10, <1>11 DEF Next

(* ConnectedOncePerFrame: a Parrot has one EventSource in an iframe whose  *)
(* announcement was dispatched, at most one more for each announcement of  *)
(* an earlier iframe dispatched to it, and none when it is late.           *)
THEOREM ConnectedOnce == Spec => []ConnectedOncePerFrame
<1>1. Init => Typed /\ PageInv /\ Answered
  <2>1. Init => IsFiniteSet(parrots)
    BY FS_EmptySet DEF Init
  <2>2. Init => Answered
    BY DEF Init, Answered
  <2> QED
    BY <2>1, <2>2, TypeInit, PageInit DEF Typed
<1>2. Typed /\ PageInv /\ Answered /\ [Next]_vars => (Typed /\ PageInv /\ Answered)'
  <2>1. Typed => TypeOK
    BY DEF Typed
  <2> QED
    BY <2>1, TypeStep, PageStep, AnsweredStep, PTL
<1>3. Typed /\ PageInv /\ Answered => ConnectedOncePerFrame
  <2> SUFFICES ASSUME TypeOK, PageInv, Answered, NEW p \in EsParrots
               PROVE  /\ p \in late => sources[p] + Pending(p) = 0
                      /\ sources[p] + Pending(p) <= strays + IF IsAnnounced THEN 1 ELSE 0
                      /\ p \in parrots \ late /\ IsAnnounced => sources[p] + Pending(p) > 0
    BY DEF Typed, ConnectedOncePerFrame
  <2>1. p \in late => sources[p] + Pending(p) = 0
    BY DEF PageInv
  <2>2. Own = IF IsAnnounced THEN 1 ELSE 0
    BY NothingBehind DEF Own
  <2>3. p \in parrots \ late /\ IsAnnounced => sources[p] + Pending(p) > 0
    BY DEF Answered, IsAnnounced
  <2> QED
    BY <2>1, <2>2, <2>3 DEF PageInv
<1> QED
  BY <1>1, <1>2, <1>3, PTL DEF Spec
=============================================================================
