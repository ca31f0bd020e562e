# Neighborparrot: a TLA+ verification project

Neighborparrot is a publish/subscribe server for browsers. Clients open an
EventSource (`/open`) or a WebSocket (`/ws`) on a channel of an application
(identified by its api id), and messages sent over a WebSocket or with `POST
/send` go to all subscribers of that channel. The server is one Ruby process on
EventMachine and Goliath (`lib/neighborparrot`). The browser side is a
CoffeeScript class (`coffee/src`) with polyfills for browsers that lack what it
uses (`public/pf`): EventSource on top of XMLHttpRequest, WebSocket on top of a
Flash object, and JSON. This project models both sides.

Source paths below are relative to the repository (`src/` in `PROJECT.json`);
file names without a directory are in `lib/neighborparrot`.

## 1. The system

| Component | State | Operations | Talks to |
|---|---|---|---|
| Reactor (EventMachine; `router.rb` sets its error handler) | FIFO queue of `EM.next_tick` blocks, timers, sockets | take a batch of jobs; between batches, socket callbacks and timers | runs everything below |
| Endpoint objects (`event_source.rb`, `web_sockets.rb`, `send_request.rb`, with `connection.rb` and `auth.rb` mixed in), one per request | `@application`, `@channel`, `@authenticated`, `@subscription_id`, `@queue` with its processor, `@keep_alive_timer`; the global `@@next_message_id` | `response`/`on_open`, `authenticate`, `prepare_connection`, `on_message`, `on_close`, `send_to_client` | application, mongo, socket |
| Applications (`application.rb`) | global `@@applications`; per instance `@app_info`, `@channels` | `get_application`, `subscribe`, `unsubscribe`, `cleanup_after_unsubscribe`, `destroy`, `send_message_to_channel` | channels, statistics, mongo |
| Channels (`channel.rb`, `brokers/channel_broker.rb`) | `@subscriptors`, an `EM::Channel` with numbered subscriptions | `subscribe`, `unsubscribe`, `publish`, `listeners_count` | the subscribers' queues |
| Statistics (`stats.rb`, mixed into the application) | counters, `@push_timer` | `stat_*`, `push_stats`, `stop_stats` | mongo |
| Presence (in `application.rb`, `channel.rb`) | the presence info in `@subscriptors` | open and close events fired in `EM.defer` threads | channels, endpoints |
| Mongo connection (`mongo.rb`) | the global `@@db` | connect again when not connected | mongod |
| Static index (`static_index.rb`) | `@@template_cache` | render or take from the cache | - |
| Browser client (`coffee/src/parrot.coffee`, `broker.coffee`) | listeners, socket or a shared iframe, polyfill retries | open, demultiplex, close | iframe, polyfills, server |
| EventSource polyfill (`public/pf/eventsource.js`) | `readyState`, `lastEventId`, `retry`, the request `xhr`, two timers; per connection what it has read and the event it is building | open a connection, read what came, queue events, close, connect again | XMLHttpRequest, server |
| WebSocket polyfill (`public/pf/web_socket.js`) | per socket `readyState`, `__createTask`, `bufferedAmount`; for all of them `__flash`, `__tasks` | construct, send, close, receive the events of Flash | the Flash object |
| JSON polyfill (`public/pf/json2.js`) | `gap`, `indent`, `rep`, shared by all calls | `stringify`, `parse` | `toJSON` methods, replacers, revivers |

How they interact: a request takes its `Application` from the global table and
then waits for mongo, which suspends its fiber while everybody else goes on. If
the login succeeds the rest of the work, `prepare_connection`, is put in the
`EM.next_tick` queue. Sending, and the cleanup after an unsubscribe, are put
there too. So a connection's life is a chain of short stretches of code with
sockets opening and closing, frames arriving, other logins completing and timers
firing in between, and the stretches share the table of applications, the
channels, and the counters without looking again at what they checked before.
That is what is hard here, and where the properties aim. What makes each
component correct:

* Applications: used instances are dropped with their last channel unless the
  push that goes with it raises, live ones can be looked up, none is used before its
  record is loaded.
* Channels: an empty channel is removed, one with users is not; a leaver holds
  nothing; nobody else's subscription is touched.
* Connections: a closed connection has no listener and no timer; an accepted one
  is subscribed in the end; the count of connections is right.
* Messages: in the order of their ids, at most once, only on their own channel of
  their own api id, published in the end, and to everybody who listens.
* Statistics: the counters follow the tables, the pushes go on, nothing is
  counted twice.
* Presence: whoever is there knows, in the end, of everybody else who is there
  and visible, but for what closing WebSockets cost it, of nobody who is invisible, and
  of nobody who left.
* Client: every Parrot is connected, and once; what belongs to an iframe is gone
  with it; the wait for a polyfill ends.
* EventSource polyfill: every event in the stream is told once, in order, with its
  own id, however the text is cut into pieces; at most one request or timer is
  alive; a lost connection is made again, a closed source says nothing more.
* WebSocket polyfill: a socket is created in Flash once, whatever comes first, Flash
  or the page; events come in Flash's order; the end of a socket is final.
* JSON polyfill: a text reads back as the value it was made of, and no call is
  disturbed by an earlier or a nested one.

`PROJECT.json` lists the hazards line by line.

## 2. The modules

The server:

    EventLoop ----------------------+
         \      Channel              |
          \    /                    |
        Application              Presence             Stats
             |                   /      \                |
           Broker         MCPresence   PresenceProofs  StatsProofs
             |
        BrokerPubSub --- PubSub
         /       \
    MCBroker   BrokerProofs

The browser:

                      Subsequences -----------------------+
                   /      |      \                        |
         EventLines   FlashSocket  Page               JsonText
             |            |          |                /       \
        EventSource       |      PageProofs        Json2    JsonProofs
         /       \    FlashSocketProofs              |
    MCEventSource EventSourceProofs                MCJson

`EventSource` instantiates `EventStream`, its abstract specification.

`Application` is `application.rb` with the counters it moves, `Broker` the endpoints with
everything above and the properties; `PubSub` is the abstract specification of the
broker and `BrokerPubSub` the refinement, `EventStream` that of the EventSource
polyfill. The `MC` modules are instances for TLC, the `Proofs`
modules hold the theorems, and `SequenceFacts`, which all of them but `StatsProofs` extend, what they
share: lemmas on queues, induction over sequences, and what `Among` selects.
**Subsequences** is that operator, `Among(s, S)`, the elements of s that are in S, in their order:
`SelectSeq` with a set, as a recursive function, so that it can be proved about.

**EventLoop** is EventMachine as the code uses it, hence marked external.
`ticks` is the `next_tick` queue, `left` how many jobs of the current batch still
have to run. `Schedule` appends, `TakeTick` takes the oldest; a batch is as long
as the queue was when it began, sockets and timers wait for its end (`Idle`), and
an exception, which `router.rb`'s error handler only logs, ends it.

**Channel** is the table of subscriptions of all channel objects. `EM::Channel`
numbers subscriptions per object 1, 2, ... and never reuses a number, so the
table of an object is a sequence indexed by id with `Nil` for removed entries.
An unsubscribe with an id the object does not know does nothing, as in the code.

**Application** has one operator per method of `application.rb`. The order of
the code is kept where it matters: `GetApplication` registers before anything is
known about the api id; `Unsubscribe` looks the channel up by name and uses an id
that may come from another object of that name; `CleanupAfterUnsubscribe` counts
the listeners of the object it was queued with and deletes by name. `Destroy` cancels the timer
and pushes before it deletes the instance from the table; the push raises while mongo connects
again, which ends the cleanup with the instance still registered, without a channel and without a
timer. `undestroyed`, a history variable, holds the instances to which this happened last. Instances
and channel objects are named by the endpoint whose request created them, which
creates at most one of each, so no counter of objects is needed.

**Broker** composes them with the endpoints. An action is one uninterrupted
stretch of code:

| Action | Code |
|---|---|
| `Authenticate(e)` | request up to the mongo query (`auth.rb:63-66`) |
| `LoginFailed(e)` | no record, wrong signature or mongo error (`auth.rb:67-75`) |
| `LoginOk(e)` | the rest of a subscriber's request (`event_source.rb:46-59`, `web_sockets.rb:10-20`) |
| `SendRequest(e)` | the rest of a sender's request (`send_request.rb:20-30`) |
| `OnMessage(e)` | a WebSocket frame (`web_sockets.rb:36-39`, `connection.rb:60-84`) |
| `CloseFrame(e)` | the client starts the WebSocket closing handshake (external) |
| `OnClose(e)` | the socket is unbound (`connection.rb:46-58`) |
| `Prepare(e)`, `Cleanup(job)`, `Publish(e, m)` | the three kinds of jobs, in `Tick` |
| `PushTimerFires(a)` | the periodic timer of the statistics (`stats.rb:23-27`) |

`phase` stands for `@authenticated`, `@channel` and how far the request got;
`received` records what the client's socket was given. A push goes through the
subscriptions in the order of their ids. A WebSocket whose client has sent a
close frame raises on send, the exception leaves `EM::Channel#push`, and its
queue has lost its processor (`stalled`), so later messages stay in its queue
and no longer raise.

**PubSub** is what the broker promises a client: numbered messages, published
one at a time in the order of their numbers, each delivered at most once to some
of the clients with the sender's topic, and, in `FairPubSubSpec`, published in the
end. **BrokerPubSub** is the refinement mapping: in flight is what the publish
jobs in the queue carry, in queue order; the topic is the api id with the channel.

**Presence** is the part of `application.rb` and `channel.rb` that runs in the
threads of `EM.defer`, for one channel object of an application with presence. The
reactor's side is `Login`, `Subscribe`, `Unsubscribe`, `CleanupAfterUnsubscribe` and
`Push`, on the queue of `EventLoop`; each subscribe and unsubscribe hands a task to
a thread. A thread's stretches are actions of their own: `StartIteration` over the
table of subscriptors, `EndCounting` with `already_logged`, `Announce` (the event is
published, which outside the reactor is one more `EM.next_tick` job), and for
the open events a second iteration, `EndListing`, whose users are sent one by one
(`SendCurrent`) without going through the queue. Ruby's rules for a Hash that another
thread iterates over are kept: a deletion is allowed and its entry may or may
not be found, a new key raises, which ends `prepare_connection` after the
`EM::Channel` was subscribed and leaves the connection "unlisted". What
`knows` records of a user is the last event the client was sent. When the
channel object was removed, later subscriptions go to another one
("elsewhere"). As in `Broker`, a push goes through the listeners in the order in which they
subscribed and ends at the first closing WebSocket whose processor raises (`CloseFrame`, `Reached`,
`stalled`), so those behind it do not get the event; `ahead` keeps that order, as far as it matters:
the WebSockets that subscribed before a connection. `SendCurrent` to a closing WebSocket raises in the
thread and ends its task.

**Stats** is `stats.rb` for the instances of one api id, which follow one another. The
operators have the names of the methods. `push_stats` is given what becomes
of its two inserts, each of which may be stored, lost without a notice, or raise
because `mongo_db` connects again; what was done before the exception stays done,
and the exception ends the periodic timer (`push_timer = "dead"`) or keeps
`destroy` from taking the application out of the table. `stored`, `lost`,
`interrupted`, `opened` and `sent` are not in the code: they are the sums that mongo has,
those that nobody has any more, and what there was to count. `connectionLevels` and
`channelLevels` are the values the counters had since the last reset.

**EventLines** is the loop of `eventsource.js` over the lines of a text, as a recursive
function on a record with the local variables it changes (`ReadLine`, `DispatchBuffer`),
and `EventsOf`, the events of a text said without a reader.
**EventSource** is the object around it. A step is a callback: of the request
(`Callback`, in the state 2, 3 or 4 of the XMLHttpRequest), of the check timer
that Opera needs (`CheckTimer`), of the reconnect timer (`Reconnect`), of a
`setTimeout(..., 0)` task that tells the page of an event (`RunTask`), or the page's
`close`. `closures` are the local variables of each `openConnection`; `xhr`,
`lastEventId`, `retry` and the timers are shared by all connections, which is
where the interleavings meet. The server and the browser's request are
external: `Answer`, `Receive` one more line, `EndRequest` completely or broken. **EventStream**
is what the page may rely on.

**FlashSocket** is `web_socket.js`. `Construct`, `Send`, `Close` and `Initialize` are the
page's calls; `RunCreate`, `RunReady` and `RunReceive` are the three kinds of
`setTimeout(..., 0)` tasks, taken in order; `HandleEvent` is one event of the batch that a
receive task works through, a step of its own because the page's listeners run
in it, may close or send on any socket, and may throw, which drops the rest
of the batch. `FlashLoads`, `FlashOpens`, `FlashReceives` and `FlashEnds` are external.

**JsonText** is `JSON.stringify` of `json2.js`, with its three shared variables. A text is a
sequence of tokens. `stack` is what the JavaScript stack holds of the calls: for each `str`
that is in a loop over elements or members, innermost first, a frame with the members to come (`todo`), the
texts so far (`partial`) and `mind`, and for each `stringify` its fake root object. `StrText` is a call of
`str` that returns at once, `StrParts` and `StrReturns` are the beginning and the end of one with a loop; in
between a `toJSON` method may return a string, raise (`Raise`), or call `JSON.stringify` itself (`CallNested`,
`NestedReturns`), to any depth, and so set the variables that the loops below go on with.

**Json2** adds `JSON.parse`: `Escape`, `IsAccepted` for the regular expressions, `eval` for
JavaScript's, `walk` with a reviver. A behaviour is calls of `stringify` one after the other, each perhaps
followed by a `parse` of its text.

**Page** is `parrot.coffee` with `broker.coffee`. `ConstructEs` creates the hidden iframe
unless there is one; its Broker posts `iframeReady` when it is there (`FrameLoads`);
`Dispatch` hands a posted message to every Parrot that ever listened, and each answers
`iframeReady` with a connect; the Broker opens an EventSource for each connect
(`OpenEventSource`); `CloseEs` removes the iframe whoever made it. An `iframeReady` that an earlier iframe left
behind makes the Parrots connect to the Broker that is there now: `strays`, a history variable, counts those
dispatched since its iframe is in the page. `ConstructWs`,
`PolyfillLoads` and `Loader` are the other service and the retries of its polyfill; a page in which nothing has the id
"head" makes the constructor raise before it starts a loader (`head`).

### What is abstracted

* Messages are their id, sender and channel; data, JSON and the SSE format are
  left out. The message Hash that all subscribers share is a value here, although
  `send_to_client` deletes `:id` from it before it reads it (`event_source.rb:24-25`); the
  id line of an EventSource is always empty, as in the first text of `MCEventSource`.
* `params`, what each client asks for, is chosen in `Init`. A request without a
  mandatory parameter raises before it changes any state and is not modelled. A
  subscriber without a `channel` parameter, which the code admits and which
  subscribes to the channel named nil, is not modelled either.
* The signature check and mongo's answer are a free choice between `LoginOk` and
  `LoginFailed`. A query that never answers is `LoginOk` never being taken.
* In `Broker` applications have presence disabled, so subscribe and unsubscribe do
  not reach `EM.defer`. In `Presence` one channel object is followed, connections
  close only after their `prepare_connection`, and there are as many threads as
  tasks (EventMachine has 20). A send that raises in a thread drops the task; EventMachine also hands
  the exception on to the reactor's thread, which is left out.
* `Broker` has of the statistics the current counts and the timer, `Stats` has
  the rest and takes the calls in any order `Broker` allows: a close may be
  counted before its open, a channel destroyed twice. Whether a push raises is a free
  choice in `Broker`, in `destroy` as in the timer; in `Stats` it follows from the inserts.
* Times are left out: a timer may fire at any moment between two batches or callbacks,
  `retry` is kept but nothing waits for it.
* A sender's api id keeps its application, since only unsubscribing cleans up:
  `ApplicationReclaimed` therefore speaks of those that had a subscriber. Nor of one whose last `destroy`
  raised: that one stays registered until another subscriber comes and goes.
* In `EventSource` a text is a sequence of lines: `offset` and `charOffset` count them. The
  server writes `"\n"` only, so that the polyfill's reading of a CRLF that arrives in two
  pieces as a blank line does not come up. The `EventTarget` mixin (lines 6 to 53), a list
  of listeners, is left out; what is dispatched is `told`.
* In `FlashSocket` listener lists, policy files, logging and the data of messages are left
  out, and `bufferedAmount` is whether it is 0.
* In `JsonText` names and numbers are values, a string is a sequence of characters of three
  kinds (those that break a string, those that JavaScript ignores, others), and an indentation is its
  length. `toJSON` returns strings only, and the replacer that is a function hides numbers.
  The operators of `Json2`, `parse` and what its properties compare it with, are recursive over values,
  so it has no theorems.
* In `Page` what callbacks do with an event changes nothing of the protocol. Closing
  a WebSocket Parrot does nothing, in the model as in the code: `parrot.coffee:179` names
  `@ws.close` without calling it.
* A step that changes nothing (an exception before any change, a keep-alive)
  is a stuttering step.
* Endpoints serve one request, as Goliath's and the model's `phase` have it.

## 3. The runs

Deadlock checking is on where the system never rests (`MCEventSource`, `MCJson`, `MCStats`)
and off where it does: an endpoint serves one request, a socket has one life, and a
finite set of them comes to rest when all have left. Symmetry, over endpoints or
connections that are treated alike, is used only where no temporal property is checked.

The named bounds. `MaxMessages` of `Broker` is the number of ids drawn, in the guard
of `PrepareSendRequest`; `Leavers` are the connections of `Presence` that may
close, `Discreet` those that may be invisible; its `WebSockets` are a kind of connection, no bound. `MaxOpened`, `MaxSent`, `MaxListeners`,
`MaxChannels` and `MaxInterrupted` bound what the statistics count and how many pushes end
between their inserts; `MaxDrift` is how far below zero closes without an open may take the current numbers,
which the code does not bound. `MaxConnections` is how often an EventSource
connects, `Streams` the texts the server sends, each up to any line. `Throwing` and `Senders` are the
sockets of `FlashSocket` whose listeners throw and which are sent on, its `MaxMessages` what each receives.
`MaxFrames` and `MaxEvents` are the iframes and events of a `Page`; `Attempts` is the code's 10, no bound.

| Run | Instance | Checks | Shows |
|---|---|---|---|
| `MCLifecycle` | 3 EventSources, 1 WebSocket, 1 api id, 1 channel | `TypeOK`, `AppInfoBeforeUse`, `NoEmptyChannelLeak`, `DepartedHoldsNothing`, `ApplicationReclaimed`, `ConnectionCountBounds`, `ChannelCountBound` | however four connections open, close and are cleaned up, nothing that lost its last user is left behind, and the counts stay within what there is |
| `MCMessages` | 1 EventSource, 1 WebSocket, 1 sender, 2 messages, fair | `ImplementsPubSub`, `AcceptedIsServed`, `EmptyChannelReclaimed` | messages ordered, at most once, same topic, published in the end; logins are served, empty channels go |
| `MCIsolation` | 2 EventSources, 1 sender, 2 api ids, 2 channels each, 1 message | `Isolation`, `StructureOK` | no message crosses api ids or channels; the inductive structure holds, and an accepted login has its job queued |
| `MCPresence` | 3 connections of 2 users, one of them a WebSocket that may close and whose user has another one, one invisible | `PresenceTypeOK`, `NobodyMissed`, `InvisibleUnseen` | in every order of threads, pushes and lists nobody who is there is missed, but for one event that a closing WebSocket ahead has cost, and an invisible user stays unseen |
| `MCStats` | 3 connections, 1 message, 1 channel, 1 interrupted push, fair | `TypeOK`, `ConnectionsAccounted`, `MessagesAccounted`, `PeaksAreReal`, `Pushed` | nothing is forgotten, only interrupted pushes count twice, and what is counted is pushed while the timer lives |
| `MCEventSource` | 2 connections, 3 texts, fair | `TypeOK`, `Lifeline`, `ToldOnce`, `ImplementsEventStream`, `LinesAreRead`, `LostIsReconnected` | every event once and in order, across pieces, connections and a close at any moment; on all texts of up to four lines the reader finds the events there are (`ReadersAreRight`) |
| `MCFlashSocket` | 2 sockets, one sent on, one with a listener that throws, 1 message each, fair | `TypeOK`, `CreatedOnce`, `InOrder`, `EachIsCreated`, `EndIsFinal` | sockets constructed before, while and after Flash loads, closed at any moment |
| `MCJson` | scalars, three `toJSON` methods that call `stringify`, all arrays and objects of up to two of them, one more level, five replacers, spaces 0 and 2 | `TypeOK`, `RoundTrip`, `RevivedLikeReplaced`, `Layout`, `SelectsKeys` | what is written is read back, replacing is reviving, and no call leaves traces |
| `MCPage` | 3 EventSource Parrots, 1 WebSocket Parrot, 3 iframes, 2 events, fair | `TypeOK`, `ConnectedOncePerFrame`, `ListenersConnect`, `LoadersEnd` | how often each Parrot is connected while iframes come and go |

Sizes: 694,070, 196,560, 321,492, 1,607,464, 286,181, 179,275, 271,661, 19,996 and
47,740 distinct states; each run takes two minutes or so at most.

Why these bounds are enough to be worth running. Four endpoints
on one channel are what the longest known histories need (a channel that empties,
is cleaned up and created again while an old cleanup is still queued takes three;
a subscription id used on the newer object takes four). Two messages show order and
duplication, and with a WebSocket and a sender both ways to issue one. A second
api id and a second channel each give isolation something to break. For presence
three connections of two users have an invisible one, a visible one that stays, and a
WebSocket that leaves, ahead of one of them or behind, and whose events race with theirs; it shares its user with one of the
two, so that the other is its user's only connection: the user who may not be missed or may not be seen (`SharedInit`). That two closing WebSockets cost no more than two events takes five
connections of three users, which only the theorem has. Three connections make a maximum that is passed after it
was reset, one interrupted push one double count. Two
EventSource connections have callbacks of the first during the second, and texts of
two events have one that is cut in two. Two sockets have one whose events are
dropped by the other's listener. The fourth iframe would repeat what the third shows: an
`iframeReady` each of two earlier ones left behind. The proofs do without the bounds.

Some consequences of the code are in the models without a property of
their own, because no comment claims otherwise or the same race is shown
elsewhere. An instance that a request took before its wait for mongo may be destroyed during
it, and the request then subscribes to an instance nobody can find. A cleanup of an old channel object
deletes a newer one by its name, and an id of the older object removes another user of the newer one. A
frame before `prepare_connection` is published with a nil channel. A WebSocket in its closing
handshake ends the push, so those behind it miss the message. Two
subscribers that leave in one turn have their channel counted as destroyed twice, and
a `destroy` that raises leaves an instance without channels registered, with its timer cancelled; a WebSocket of the
polyfill that is closed while its creation waits in `__tasks` is created all the same and becomes OPEN again;
`ChannelCountBound`, `ApplicationReclaimed`, `NobodyMissed` and `CreatedOnce` are what remains. The properties above say what does hold in spite of all this.

The other runs are about what the comments of the code say and the code does not
do. Each has a short counterexample, and none of them is a disagreement with the
properties above.

| Run | Property | What the comment says | What happens |
|---|---|---|---|
| `MCZombie` | `ClosedIsUnsubscribed` | `connection.rb:46-47`: on close, unsubscribe and close the endpoint | a connection closed between login and `prepare_connection` is subscribed afterwards, with a keep-alive timer, for ever |
| `MCGhost` | `NoGhosts` | `application.rb:91`: close events are sent to the channel's users | the close event of a connection is pushed before its open event, or before an older list is sent, and the user seems there for ever |
| `MCDeadTimer` | `PushedAlways` | `constants.rb:5`: how often stats are pushed to the server | a push that raises, because no login has succeeded yet or mongo is being connected again, ends the periodic timer; the application goes on counting and pushes nothing |

Every property of a passing run has a mutant, a plausible slip in the code
(`PublishAgain`, `ForgetAppInfo`, `CloseRequestOnly`, `RunReadyWithoutTasks`, ...) that
breaks it; the mutated operators stand before the ones they replace, with a comment.

### Fairness

* `Broker`: `WF_vars(Tick)` and nothing else. EventMachine runs the
  `next_tick` queue on every iteration of its loop and a job that raises only ends
  the batch, so a job in the queue is taken in the end. Nothing obliges a client
  to open, send or close, or mongo to answer, so no fairness is assumed for those
  actions; the liveness properties start where the code has queued something.
  `EmptyChannelReclaimed` speaks of one channel object: a name may be empty
  again and again with new objects.
* `Stats`: `WF_vars(PushTimerFires)`, the periodic timer fires as long as it is set.
* `EventSource`: weak fairness of `RunTask`, `CheckTimer` and `Reconnect`, which the browser's timers
  are; none of the request's callbacks, since the comment about Opera (`eventsource.js:212-213`) says that
  they may not come: `LinesAreRead` is what the check timer is for.
* `FlashSocket`: weak fairness of the page's tasks together (`Running`); they are in one queue, and a task
  runs to its end.
* `Page`: weak fairness of the browser's tasks (`Dispatch`, `OpenEventSource`) and of each
  `Loader`. The page of the iframe and the polyfill come over the network, and nothing in `parrot.coffee` tries
  again, so neither `FrameLoads` nor `PolyfillLoads` is fair: `ListenersConnect` starts when the Broker is there.

## 4. The proofs

`BrokerProofs` proves, for any number of endpoints, api ids, channels and
messages, from the assumptions named in `Channel` and `Broker` (`Nil` is neither
an endpoint nor a channel name, the kinds of endpoint partition the endpoints,
`MaxMessages` is a natural number):

| Theorem | States |
|---|---|
| `TypeCorrect` | `Spec => []TypeOK` |
| `StructureCorrect` | `Spec => []StructureOK` |
| `NoEmptyChannelLeakAlways` | `Spec => []NoEmptyChannelLeak` |
| `DepartedHoldsNothingAlways` | `Spec => []DepartedHoldsNothing` |
| `IsolationAlways` | `Spec => []Isolation` |
| `AppInfoBeforeUseAlways` | `Spec => []AppInfoBeforeUse` |
| `ApplicationReclaimedAlways` | `Spec => []ApplicationReclaimed` |

The argument. None of the safety invariants is inductive alone, because
instances and objects are replaced while jobs and endpoints hold on to the old
ones. `IInv == TypeOK /\ StructureOK` says what survives that:

* `ApplicationsOK`: an endpoint past "idle" works on an instance created for its
  own api id, registered or not. Isolation rests on it.
* `JobsOK`: `prepare_connection` is queued at most once, for an accepted endpoint, so
  it runs once; a publish job belongs to the endpoint that issued its message.
* `AcceptedOK`: an accepted subscriber's `prepare_connection` is in the queue, whatever closes, raises or
  is taken meanwhile. This is all of `AcceptedIsServed` but the fairness of `Tick`.
* `ChannelsOK`: a registered channel is under its own name in its own application.
* `SubscriptionsOK`: whatever entry stands at an id was put there by the endpoint
  that holds this id, in an object of its own application and channel. This is why
  an id used on a newer object can remove somebody else's entry but can never
  leave the leaver's own in it.

Typing is proved operation by operation (`ScheduleType`, `OpenAndSubscribeType`,
...), then action by action (`TypeStep`). `KeptStep` collects what no step takes
back (an endpoint that left "idle" keeps its parameters and application, a
subscription number is final); `RegisterStep` and `TablesStep` say which steps
touch which table. With those, each invariant has one step lemma with a case per
action that can disturb it, and its theorem combines it with `IInvAlways`.
`ApplicationReclaimed` needs care: the removal of an application takes the table
entry of the api id, whichever instance is there, and the proof shows that the
step that empties the registered instance is the one that takes it out, or the one in which its
`destroy` raises; and that an instance is `undestroyed` no longer once it has a channel again.

`PresenceProofs` proves, for any number of connections and users and any `WebSockets`, `Leavers`
and `Discreet`:

| Theorem | States |
|---|---|
| `PresenceTypeCorrect` | `PresenceSpec => []PresenceTypeOK` |
| `PresenceInvAlways` | `PresenceSpec => []PresenceInv` |
| `NobodyMissedAlways` | `PresenceSpec => []NobodyMissed` |

`NobodyMissed` speaks of quiet states, `PresenceInv` says what holds on the way
there. Its heart is `CountOK`. If c and d are both in the table and d is visible and the only
connection of its user that ever was there, then c is `Told` of d: it knows of d's user, or d's open event is
still being made or in the queue, or c's list is still to be made, or was made
with d in it. Those it is not told of are `Untold(c)`, and there are at most as many of them as there are
WebSockets that subscribed before c and whose processors have raised: a push that misses c has
met one that raises ahead of c (`FirstRaiser`: among finitely many that would raise ahead of c, take one that has none
ahead of itself), which raises no second time, so both numbers grow by one (`AtMostOneMore`, `OneMore`). `OrderOK` is what this
takes of the subscriptions: to be ahead is a strict order, and the listeners are finitely many. All
other steps owe nobody an event that was not owed before (`ToldStays`, `CountKept`). The other parts are what they need for
that: nobody enters the table behind a running iteration, so a list made while d is in the table
contains d (`ThreadsOK`); a user with one connection is not taken for logged in
before, so its open event is not suppressed (`ThreadsOK`); and a close event in the
queue is of somebody who left, so it never takes back what c knows of d
(`QueueOK`). There is one lemma for each action. The theorem shows that the raise
on a new key, which costs a connection its subscription, is also what keeps lists
complete.

`InvisibleUnseenAlways` (`PresenceSpec => []InvisibleUnseen`) goes along with it:
`UnseenInv` adds that no event of a hidden user is in the queue, that the only connection of a user is not
taken for logged in before, so that its list is filtered, and that no hidden user is on such a list.

`BrokerProofs` also proves about `Broker`'s counters, for any sets of endpoints:

| Theorem | States |
|---|---|
| `ConnectionsCountedWithinBounds` | `Spec => []ConnectionCountBounds` |
| `ChannelsNeverOvercounted` | `Spec => []ChannelCountBound` |

Both compare a number with the cardinality of a set, so the sets have to be finite although
`Endpoints` and `ChannelNames` need not be: only finitely many requests have begun at any moment (`Requested`), and
only they are counted. `ConnectionsCounted` lists what a step can do to a count
and its sets: a connection waits, closes early, opens, or departs; in each case
both bounds move with the count.

`BrokerProofs` ends with `SafelyImplementsPubSub`, `Spec => Abstract!PubSubSpec`: the refinement that the run
`MCMessages` checks with its fairness, here without it and for all instances. What is in flight is computed from the
queue by a recursive function, so `MessagesOfAppend` and `MessagesOfHead` find by induction what a job that
is queued or taken does to it; `MessageIssued` and `MessageDelivered` are the two steps of `PubSub`, and everything else
is a stutter (`NothingIssued`). That everybody reached has the sender's topic rests on
`StructureOK` again (`ReachedTopic`). `SeenInOrder`, `Spec => []Abstract!InOrder`, is what a client has of it: its
inbox ascends. `LinedUp` says why: what is in flight ascends and ends at or below `lastId`, and each
inbox ascends and ends below the oldest message in flight.

`StatsProofs` proves `TypeCorrect`, `ConnectionsNeverForgotten` (`[]ConnectionsAccounted`),
`MessagesCountedOnce` (`[]MessagesAccounted`) and `PeaksNeverWrong` (`[]PeaksAreReal`) of `Stats`, for any
bounds and channels. `PushCases` says in three cases what a push does: everything, nothing, or only its
first insert; the sums of messages are handled as an algebra of their own (`PlusCommutes`, `PlusAssociates`).

`EventSourceProofs` begins with `EventLines`, for texts of any length:

| Theorem | States |
|---|---|
| `ReadLinesTyped` | what is read is a reader again |
| `ReadLinesInPieces` | to read a text in two pieces, with the buffer kept between the callbacks, is to read it at once |
| `ReadLinesIsRight` | a new reader finds the events of the text, `EventsOf`, which are said without a reader |

`ReadLines` is a recursive function; its value at each line is found by induction, over a set of texts since
an operator cannot be a parameter here (`SequenceInduction` of `SequenceFacts`). What is inductive
in `ReadLinesIsRight` is `IsRead`: the events found are those of the lines so far, the last id is that of the last of
them, and data, name and id are those given since the last event. `EventsOf` looks back from each end of an event
to the one before it; the lemmas on `Listed`, `Before` and `LastValue` say what one more line changes of that.
The run `MCEventSource` checks the same (`ReadersAreRight`) on texts of up to four lines.

`EventSourceProofs` proves, for any texts and any number of connections:

| Theorem | States |
|---|---|
| `TypeCorrect` | `Spec => []TypeOK` |
| `LifelineHolds` | `Spec => []Lifeline` |
| `EventStreamImplemented` | `Spec => ImplementsEventStream` |
| `ToldOnceAlways` | `Spec => []ToldOnce` |

The invariant of the first three is `IInv == TypeOK /\ Lifeline /\ Failing /\ InTurn`. `InTurn` is what makes the
refinement true: the tasks that are queued, whatever connections and callbacks queued them, follow
one another as a stream's events may, from the readyState the page sees now; so each of them, when it
runs, is a step of `EventStream`. `Failing` says that a source whose failure is about to be told has no request and no timer left.

`Lifeline` has two parts, and only the first, `OneLife`, is in `IInv`. The other is `LooksOn`: an open connection
has not looked past its text, and while the server still writes, one that began to read has a
check timer. It is the invariant `Looking` on top of `IInv`: the callbacks are the only steps that move a position,
each to the end of what is there, a new connection begins before its text, and a timer is cleared only with
its request. So lines that arrive are found without any further callback, which is `LinesAreRead` but for
the fairness of the timer.

`ToldOnceAlways` needs more: that the shared `lastEventId`, the closures and the position up to which lines were read
belong together. `Reading` says it: no closure has read more lines than it received, `lastEventId` is the id of the last event in the
`Story` of all lines read, and only the last connection can have a request, whose closure keeps the data, name and id
that a reader of its lines keeps (`StandsAt`). `TInv == IInv /\ Reading /\ ToldOnce` is inductive. A callback
reads on from where its closure stands, so by `ReadLinesIsRight` and `ReadLinesInPieces` the events it queues are
those the story grows by, whoever looked at the text before (`MoreEvents`, `StoryFurther`); a task
moves one event from queued to told; a reconnection begins an empty text with the last id; and
a source that was closed tells a prefix of the story. The proof is why a text that is looked at twice,
by a callback and the check timer, is not told twice: both go on from the same `offset`.

`FlashSocketProofs` proves, for any sockets, any of which may throw, and any number of messages:

| Theorem | States |
|---|---|
| `TypeCorrect` | `Spec => []TypeOK` |
| `CreatedOnceAlways` | `Spec => []CreatedOnce` |
| `InOrderAlways` | `Spec => []InOrder` |
| `EndStaysAlways` | `Spec => []EndStays` |

`CreatedOnce` speaks of sockets that are not closed: to close one never names a socket that Flash does not know, while
`send`, which does not look at `CLOSED`, may after a close before the creation. A closed socket
has no task left that creates it; only Flash's own list, where `close` does not look, may. It says of a waiting socket also what creates it: its task, which is not taken without creating it, or
the list of a Flash object that is still loading or has a ready task to come. `InOrder` says that
what Flash keeps has a receive task to come, although a task takes more than the event it was set for. That
second half of both is `DueInv`: each timer that is taken leaves its work done or another timer that will do
it, so of `EachIsCreated` only the fairness of the tasks is left to TLC.

The rest of `CreatedOnce` becomes inductive with two additions (`CreatedInv`): a socket that was not constructed is known
nowhere, and every event that is not handled yet is of a socket that Flash knows. Without the second, a late event could
make a socket that still waits for its creation look alive. `InOrder` is inductive once events have the
numbers that Flash gave them (`OrderInv`): then handled, running and kept events ascend (`Ascending`), so
the events that a throwing listener drops are none of those that stay (`DroppedApart`), and to drop them
takes them out of the selection and nothing else. `EndStays` is the safety part of
`EndIsFinal`, which the run checks with its liveness: once the page was told of an end, the socket stays closed and is not heard of again. It says of the page what `LastIsEnd` says of Flash, that an end
is the last of its socket, and rests on both: a socket that ended is not created a second time
(`CreatedInv`), and no event is handled after an end that Flash had emitted before (`NothingAfterEnd`, from `Ascending`).

`PageProofs` proves, for any Parrots and bounds:

| Theorem | States |
|---|---|
| `TypeCorrect` | `Spec => []TypeOK` |
| `ConnectedOnce` | `Spec => []ConnectedOncePerFrame` |

An EventSource that is open, or a connect that is on its way to open one, goes back to an announcement (`iframeReady`) that was
dispatched while the iframe's Broker was loaded. `PageInv` therefore bounds, for each Parrot, its EventSources and connects
together by `strays + Own`: the announcements of earlier iframes that were dispatched to this one, and its own once that
was. The iframe's own comes last of all announcements on their way, so when nothing but messages of other kinds is left, it has been
dispatched (`NothingBehind`), and a Parrot that came too late has nothing to come. `DispatchKeeps` is the step that
counts: an announcement (`AnnouncementIsReady`) is a stray one or the last, and the connects it makes are one for each Parrot
(`ConnectsFacts`), which rests on what `SetToSeq` lists (`ListedOnce`).

That none is forgotten is the invariant `Answered`: when the iframe's announcement has been dispatched, each Parrot that heard it has an
EventSource or a connect on its way, because the dispatch makes exactly one connect for each Parrot (`ConnectsFacts`,
from `ListedOnce`, which says that the list leaves nobody out), and opening takes a connect only for an
EventSource. It is what `ListenersConnect` rests on.

`JsonProofs` proves, for any values, to any depth, replacers and spaces:

| Theorem | States |
|---|---|
| `TypeCorrect` | `TextSpec => []TypeOK` |
| `LaidOutTexts` | `TextSpec => []Layout` |
| `SelectedTexts` | `TextSpec => []SelectsKeys` |

They are about `TextSpec`, the calls of `stringify`; `Json2` adds to it a variable and a step that changes none of
its. `TypeOK` says that a call which succeeds ends with no gap. That is inductive with `Stacked`: wherever on the stack a loop stands
directly in a call, the gap it has in mind is none, and while a call itself is innermost there is none now. Whatever a nested call did to `gap`
is undone by the loop around it, because that loop does not add to what it finds but goes back to what it had in mind.

`Layout` and `SelectsKeys` are proved together, as what `Whole(text, base, space, replacer)` says of a text within base
brackets. The invariant (`PlainInv`) is that while no `toJSON` method has called, `gap` is `space` for each loop on the stack, each
loop has in mind the gap of the one below it, the texts it has so far are whole at its depth, and what it has still to ask for
is on the list. A loop that ends makes of whole texts one that is whole a level higher (`WrapWhole`): each line
of a part stands as it did, for the brackets that are open before a line of the whole text are those before the part, plus those within it (`OpenedConcat`,
`LaidOutConcat`), and between two parts no bracket is open but the outer ones (`JoinBalanced`). No induction
over values is needed for it: the stack does what recursion does in the code, and each step adds one text.

With these, every safety invariant that a run checks is proved but `RoundTrip` and `RevivedLikeReplaced`, where `parse`
and `walk` are recursive over values. Only model-checked are those, the fairness in `ImplementsPubSub`, and all liveness properties
(`AcceptedIsServed`, `EmptyChannelReclaimed`, `Pushed`, `LinesAreRead`, `LostIsReconnected`, `EachIsCreated`,
`EndIsFinal`, `ListenersConnect`, `LoadersEnd`), which are out of
TLAPS's reach, as ENABLED and so fairness are. Of most of them the theorems above have the safety core, that what
is still to be done has its job, task or timer: `AcceptedOK`, `NoEmptyChannelLeak`, `Lifeline`, `CreatedOnce`,
`EndStays` and `Answered`. The
properties of the violation runs are refuted, not proved.

## 5. Plan

Done: all modules of section 2. What is left, in the order of its worth:

1. **Delivery**: the shared message Hash from which `send_to_client` deletes `:id`, with
   the processors of the queues. It shows without an interleaving and needs none.
2. **Mongo** and **StaticIndex**: small modules for the reconnecting connection and the cache, of little
   worth without em-mongo's own behaviour.

## 6. Not modelled

* The mongo connection (`mongo.rb`): external in `Broker` (an answer) and `Stats` (the outcome of an insert). What
  there is to say about connecting again depends on em-mongo, which is not in the repository.
* The static index (`static_index.rb`): a page rendered or taken from a cache, one request at a time.
* The AMQP and test brokers (`channel.rb` creates the first under `if false`, nothing
  creates the second), and `connection_handler.rb` and `protocol.rb` (not required by
  `lib/neighborparrot.rb`): not reachable.
* Constants, logging and boot: no state. Routing (`router.rb`) keeps none either.
* `public/pf/swfobject.js`: minified third-party code that embeds a Flash object, a step in
  `FlashSocket` that may fail. The Flash object itself is not in the repository as source.
* Test frameworks under `public/`, the tests, and the deployment scripts under `config/` and `puppet/`.

A restart loses everything, since nothing is persisted but the pushed statistics.
