# A TLA+ model of tinkerforge-applications

The repository holds a sensor logger for Tinkerforge hardware. It consists of

* `libtinkerforge/bindings`: the C bindings of Tinkerforge. `ip_connection.c` keeps the TCP
  connection to the Brick Daemon, with three threads of its own; the `bricklet_*.c` files turn
  function calls into request packets.
* `libtinkerforge`: C++ classes for sensors and a display on top of the bindings.
* `sensorlogger`: a program that waits for sensors to appear, sets a threshold for each, and
  publishes their values to an MQTT broker.

There are no tests, and the documentation is in the comments of the headers. What is hard in this
code is concurrent: an application thread, the callback thread, the receive thread and the
disconnect probe thread share one `IPConnection`, and only some of its fields under a mutex. That
is what these modules are about. `PROJECT.json` lists the components, the runs, which definition
models which lines, the hazards and where they bite.

All line numbers below without a file are of `libtinkerforge/bindings/ip_connection.c`.

## Inventory

| Component | State | Operations | Modules |
|---|---|---|---|
| IP connection lifecycle (1413-2280) | `socket`, `socket_id`, `socket_mutex`, `callback`, the `auto_reconnect*` and `disconnect_probe*` fields, `receive_flag`, three kinds of threads | connect, disconnect, destroy, send, set_auto_reconnect; callback loop, receive loop, probe loop | `IpConnection`, `IpConnectionProperties`, `IpConnectionProofs` |
| Packet queue (1069-1147) | a linked list, its mutex, a semaphore | create, put, get, destroy | `PacketQueue`, `Fifo`, `PacketQueueProofs` |
| Requests and answers (1336-1400, 1738-1796, 2329-2359) | `next_sequence_number`; per device `request_mutex`, two expected fields, `response_packet` with its mutex and event | header creation, device_send_request, the answering part of handle_response | `DeviceRequest`, `DeviceRequestProofs` |
| Device table (962-1048, 1162-1267, 1487-1501) | an array of keys and values; `ref_count` per device | insert, remove, get; create, acquire, release, destroy | `DeviceTable`, `DeviceTableProofs` |
| Receive framing (1800-1853) | a buffer for ten packets | append a piece of the stream, split off packets | `Framing`, `ReceivePath`, `ReceivePathProofs` |
| Callbacks (1318-1325, 1585-1682, 1738-1778, 2315-2327) | per device and for the enumeration: a function and its user data; `packet_dispatch_allowed` | register, test and queue, dispatch through the wrapper, disconnect | `Callbacks`, `ReceivePath`, `ReceivePathProofs` |
| Response-expected flags (1269-1317) | a flag per function and device | get, set, set all; what calls make of them | `ResponseExpected`, `ResponseExpectedProofs` |
| Bricklet bindings, Brick Daemon (1412-1468) | none of their own | the functions that send requests; wrappers of callbacks | `Bindings`; the wrappers in `Callbacks`; not the layout of packets |
| Sensor classes | the threshold in the device | getTemperature and the like, callback, new threshold | `SensorLogger`, `SensorLoggerProofs`; `DistanceIr` for `BrickletDistanceIr` |
| Sensor logger, ConnectionHandler | the list of sensors, the topic | constructor, enumeration callback, publish | `SensorLogger`, except for the topic and the first connection, `SensorLoggerProofs`; `DistanceLogger` |
| MQTT client | `m_running`, the callbacks of subscriptions, the thread of `mosquitto_loop` | constructor, run, publish, subscribe, unsubscribe, onMessage, destructor | `MqttClient`, `DistanceLogger`, `DistanceLoggerProofs` |
| LCD class, Base58 | the status bar | layout of text, conversions | not modelled: sequential, and the LCD is used by no program of the repository |
| Authentication, SHA-1, HMAC | `next_authentication_nonce` | authenticate | not modelled: no program of the repository calls it |
| Wrappers of the operating system | | mutex, event, semaphore, thread, socket | not modelled as such: each module uses what the POSIX branch promises |
| Waiting and state functions | a semaphore | wait, unwait, get_connection_state, set_timeout | not modelled: one load, store or semaphore operation each |
| `main.cpp`, build files | | | not modelled: sequential set-up, no behaviour |

How they interact: a binding function creates a header (`next_sequence_number`, of the
connection), enters `device_send_request` (`request_mutex`, of the device), which calls
`ipcon_send_request` (`socket_mutex`). The receive thread finds the device in the table, takes a
reference, and either copies an answer into the device and sets its event, or puts a packet into
the callback queue. The callback thread takes items from the queue and runs application
callbacks, which may call every function above; it also is the thread that closes a lost
connection and reconnects. The probe thread sends a packet when nothing was sent or received for
five seconds, to notice that a connection is gone. A lost connection is noticed by whichever of
the receive thread, the probe thread or a sender comes first.

What makes each component correct:

* **Lifecycle**: threads only meet live sockets and callback contexts; nobody closes a connection
  that is fine; calls return; destroy leaves no thread behind; with auto-reconnect a lost
  connection is replaced.
* **Queue**: first in, first out; an item is there when the semaphore says so; no wakeup is lost;
  what was queued before the exit item is dispatched.
* **Requests**: a caller gets its own answer or an error; it never waits for ever.
* **Flags and bindings**: a getter, which copies its result out of the answer, never does without
  one; a setter that asks for an answer notices its errors.
* **Table**: a device is freed by the last one that uses it, never before, never not at all; the
  receive thread finds every device.
* **Framing**: packets are handled whole, once and in order, however the stream is cut.
* **Callbacks**: a function is called with its own user data and the value that was sent; never for a packet after
  a disconnect has returned; a packet that somebody waits for leads to a call.
* **MQTT client**: it reconnects; it can be destroyed at any time; what the broker retains comes to be the value
  of the bricklet.
* **Sensor logger**: no callback reaches a destroyed sensor; a bricklet that is plugged in has a sensor
  and reports when it leaves the tolerance; the published value follows the measured one.

## The modules

### IpConnection

Callers run API functions: application threads (`Users`) and the threads of callback contexts
(`Contexts`), which also run `ipcon_callback_loop`. Workers are the receive and probe threads of
each socket. A socket is its `socket_id`: the code increments it for each connection, so the model
has `conn[s]` for the state of the TCP connection of socket `s`, and `lost` for the sockets whose
peer is gone. NULL is 0.

A step of the model is what happens between two points at which another thread could
interfere in a way that matters: taking `socket_mutex` (`TakeMutex`), each join, each store to a
field that is read without the mutex. So `ipcon_connect_unlocked` (1856-2000) is the steps
`CreateContext`, `ConnectOk`/`ConnectFails`, `StartReceiver`, `StoreFlags`, `Announce`, with
`CreateContextFails`, `ProbeThreadFails` and `ReceiveThreadFails` for its error paths;
`ipcon_disconnect_unlocked` (2003-2038) is `StopProbe`, `JoinProbe`, `JoinReceive`, `Close`;
`ipcon_callback_loop` with `ipcon_dispatch_meta` (1503-1582, 1647-1682) is `Pop`, `TeardownLost`
or `SkipLost`, `CallbackReturns`, `SetPending`, `Retry` or `GiveUp`. An action guarded by `Enter(t, F)`
is the first critical section of the functions in `F`.

A worker reads `ipcon_p->callback` (1702, 1772) and puts into its queue in two steps: `into` is the context it has
found (`FindReportQueue` and `ReportLost`; `ReceivePacket` and `QueuePacket`), which others may end in between. What is
put into a context that has ended but is not freed yet (`Freed`) is lost with it.

A dereference of NULL, or a put into a freed context, is the action `Crash`. The model ends with it, and after `ipcon_destroy`.
A `recv` on a socket that was closed and freed is modelled as one that fails. `Call` lets
`ipcon_destroy` begin only when no other application thread is inside a function, as its contract
demands; callbacks may be anywhere.

`CONSTANTS` choose what may happen: which functions threads and callbacks call, how many
connections get lost, whether thread creation can fail, whether the probe's `send` can fail, and
whether `ipcon_connect` is called after it once succeeded.

### PacketQueue, Fifo

The linked list as the C code has it: `head`, `tail`, `next[n]`, a semaphore. `queue_put` is three
steps, `Allocate` before the mutex is taken, `Link` in the critical section, `Release` of the
semaphore after it; `queue_get` is `Acquire` and `Take`. `chain` is a history variable, the items
from head to tail; that `head`, `tail` and `next` agree with it is part of the invariant, not
assumed. `Fifo` is the abstract specification, and `PacketQueue` implements it with the data of
`chain` as its items. `IpConnection` uses the queue as a sequence: the refinement is what
justifies that.

`BeginExit` is `queue_put` of the exit item (1635-1638); the other producers may be anywhere, and go on putting. `before`
is a history: what the list held when the exit item was allocated. `Destroy` frees the queue, with what is left in it;
the model ends there, because a `queue_put` that comes later uses freed memory. Which threads can be
that late is a question to `IpConnection`.

### DeviceRequest

Callers of one device. `CreateHeader` numbers a request; `Lock`, `Store` (two fields, in any
order), `Send`, `Woken` or `Expire`, `Store` again, `Cleared`, `Read` are `device_send_request`. The
receive thread is `Receive`, `Compare` (two fields, in any order), `Copy`, `Signal`. The two fields
are plain memory that the receive thread reads without the mutex, which is why each load and each
store is a step. A ticket counts the requests, and is carried along as a history: it tells whose
answer it was where the four-bit sequence number cannot. Answers of one device arrive in the order
of its requests, late or not at all (`Lose`). `event_wait` may expire at any time, also when the
event was set just then.

### ResponseExpected, Bindings

The bindings of a device are tables of functions: `Getters[d]` pass a packet for the response and
copy out of it, `Setters[d]` do not, and `Default[d]` has the flags their create function stores.
`ResponseExpected` takes the tables as constants and assumes no more of them than what the
create functions have to get right (`FlagAssumption`): getters are `always_true`, setters are not.
`Bindings` gives the tables of the five bricklets and the Brick Daemon, so that TLC checks the
assumption for each, and runs with them.

Threads call functions and change flags. `Begin` is `packet_header_create`, where the flag is
read, once; `Send`, `SendFails`, `Answered`, `TimedOut` are the outcomes of `device_send_request`,
with `Return` as the end of each function of the bindings: the response is a local variable that is
not initialised, and only copied from after E_OK. No mutex protects the flags, which is why
`device_set_response_expected_all` takes a step for each (`SetNext`). `device_set_response_expected`
reads a flag and then stores one; as nothing turns the flag of a setter into that of a getter or back,
this is one step. Whether it is the right answer is left to `DeviceRequest`, and setters that expect no
answer are not followed to the device.

### DeviceTable

The table is a sequence of entries; `First` is the loop that stops at the first entry with the key.
One step is one critical section of `devices_ref_mutex`. `table_insert` is not under that mutex in
`device_create` but under that of the table, as is every lookup, so that it is one step as well.
Which UID a device has is chosen in `Init`: two devices may have the same one, because the logger
creates a device object for each enumeration. The conversion of a UID string to a number is not
part of this module. `twins` is a history: the devices that ever shared their UID.

### SensorLogger

The program on top: `Table == INSTANCE DeviceTable` with variables of the same names, whose
application is the logger and whose workers are the callback thread and the receive thread. A device
is the pair of a bricklet and a number, as many as the bricklet has announced itself. A sensor is
represented by its device, of which it has exactly one.

The callback thread takes packets from `queue` (`Pop`). `SensorLogger::enumerationCallback` is
`AddSensor` (the constructor of the sensor), `Register`, `Get`, `SetThreshold`, `Publish` (together
`registerCallback`), or `RemoveSensor`. `ipcon_dispatch_packet` is `DispatchReport`, then
`SetThreshold` and `Publish` again. Each step is a call that may take long, or after which other
threads can be observed. In `Get` and `SetThreshold` the answer may come (`Answered`) or not; the result
is ignored by the code, so that the value without an answer is any value at all. The receive
thread takes a reference when it handles an answer or a report, wakes the caller up or queues the
packet, and gives the reference back in a later step (`ReceiverReleases`). Until then it handles no
other packet, and the model lets no message come.

The bricklets are external: they announce themselves when they are plugged in and when an
enumeration is requested, keep the threshold until they are unplugged, and report, again and again,
while their value is outside of it. `missed` is a history: bricklets of which the connection lost a
message or a threshold. Values are numbers modulo `Width`. The lower bound of a threshold is cut off
at 0, as in the classes with unsigned values; `BrickletTemperature` lets it wrap, which needs a value at
the end of its range.

### Framing, Callbacks, ReceivePath

`Framing` is `ipcon_receive_loop`. TCP hands out the stream in pieces, so that `Receive` takes any number of
bytes that are still to come and fit into the buffer; `WaitForMore` and `HandlePacket` are the inner
loop. A byte is represented by its position in the stream: `handled` then tells exactly which bytes
each packet was made of. `Start` has where the packets of the stream begin, and `LengthField` what each byte
would say if it were taken for the length of a packet. The stream itself is right (`FramingAssumption`): the
Brick Daemon sends complete packets with a length of at least a header. The code does not check the length;
with a 0 in it the inner loop would go on for ever.

`Callbacks` has the four plain accesses that registering and dispatching a callback consist of: the function and
its user data are stored one after the other (`StoreFunction`, `StoreUserData`) and loaded one after the
other, in the opposite order by the wrappers of the bricklets and in the same order for enumerations
(`LoadFunction`, `LoadUserData`). A registration is a number, which stands for its function and its user
data. `HandleResponse` is the test of the receive thread, `TakePacket` and `Dispatch` those of the callback
thread; between them everything may change. The wrappers of the five bricklets are tables of the types they
convert to. `overlapped` is a history: someone registered for the same kind of packet while one was
dispatched.

`ReceivePath` composes the two with `ipcon_disconnect` (`Disallow`, `Stop`, `JoinReceiver`,
`QueueRequest`, `QueueExit`, `JoinCallback`), called by a thread or by a callback, with the end of `ipcon_connect`
(`Announce`), and with a loss of the connection. The queue has the meta items of all three, whose connected and disconnected
callbacks the callback thread calls (`TakeMeta`); `told` is what the application was told. `socket_mutex` appears as
`Holding`. `due` is a history: the packets for which there was a function from their arrival on.
The probe thread and reconnecting are left to `IpConnection`, answers to `DeviceRequest`.

### DistanceIr, MqttClient, DistanceLogger

`BrickletDistanceIr` differs from the other sensors: it has the bricklet report once a second if its value has
changed, cuts large values off, compares with the last value passed on, and asks for no first value.
`valueUpdated` is `ValueUpdated` and `Published`, before and after the value is handed on. The bricklet may still have
its period from an earlier run of the program. `missed` is a history: its last report came before the
callback was registered.

`MqttClient` has two threads. `m_thread` runs `Test`, then `LoopIdle`, `LoopFails` or `OnMessage`; after a failure
`Reconnects` or `ReconnectFails`; for a message `FindCallback` (the `std::find_if` of onMessage), `RunCallback` with what it
has found, and `CallbackReturns`. The owner may change the vector of callbacks between any two of these steps. If it does,
the iterator may dangle: `raced` is set, and what the thread finds and calls from then on is any callback or none. The owner runs `Run`, `Subscribe` and
`Unsubscribe` (each followed by the change of the vector), and the destructor: `Disconnect`, `Stop`,
`Join`. libmosquitto and the broker are external, modelled by what the code expects of them: with
quality of service 0 a message is sent once if there is a connection, arrives in order unless the connection
breaks, and is lost otherwise; subscriptions end with the connection, because the client asks for a clean session.
`lost`, `expected`, `handled` and `raced` are histories.

`DistanceLogger` composes them as SensorLogger.cpp:91-93 does: `Published` of the sensor is `Publish` of the client. The
sensor does so also while the client is destroyed and after that (SensorLogger.h:51-55): what comes of the latter is left open.

## What the runs show

| Run | Question | Bounds |
|---|---|---|
| `lifecycle` | With callers, callbacks, a loss, failing probes and failing thread creation all possible: does the probe thread only meet its own open socket (`ProbeSocketLive`), is only a lost connection closed unasked (`ClosesOnlyLost`), is no context ended twice or used after its end, but for two cases (`ContextAlive`), is the receive thread joined wherever the code joins it, and is it done elsewhere until a probe thread has reported (`ReceiverJoined`)? | 1 application thread, 2 contexts, 2 sockets, 3 calls, 1 packet, 1 loss, 1 failing thread creation |
| `single_reporter` | While only the receive thread reports losses and `ipcon_connect` is called once: is NULL, or a freed context, never used (`NoNullUse`), does a disconnect close (`DisconnectCloses`)? | 3 sockets, 2 losses, 4 calls; auto-reconnect switched on and off by both threads |
| `requested` | Without lost connections, when two threads call at once, their callbacks send, and connecting may fail: do all calls return (`CallsReturn`), and does `ipcon_destroy` leave no thread behind (`DestroyTerminates`)? | 2 application threads, 3 calls; a callback never connects |
| `reconnect` | Is a lost connection replaced (`ReconnectsAfterLateLoss`), do the joins end (`JoinsReturn`), does the reconnect loop end, also when a disconnect aborts it (`ReconnectEnds`), do calls made meanwhile return (`CallsReturn`)? | 3 sockets, of which a reconnect can take two, 3 contexts, 1 loss, 3 calls of connect, disconnect and send |
| `queue` | Does the list implement a FIFO queue, is an announced item always there, is what was queued before the exit item dispatched (`NothingLost`), is everything taken until the exit item is? | 2 producers, 5 items |
| `requests` | Does nobody take the answer of another call, does a wrong packet only follow a timeout, does every call return because waits expire, and, if they do not, is no wakeup lost? | 2 callers, 2 functions, 3 requests, 2 sequence numbers |
| `bindings` | With the functions of all bricklets: do getters return only what the device has answered, do setters that asked for an answer notice errors, while flags are changed? | 6 tables, 2 threads, 2 calls, each of any function or a change of flags |
| `devices` | Is no device freed in use, does none leak, is the table never left with a freed device, is a device without a twin always found? | 3 devices, 2 UIDs, 2 workers, a table that grows by 1 |
| `logger` | Does no callback reach a destroyed sensor (`SensorAlive`), is the threshold around the published value when all messages are handled (`Armed`), does the published value come to within the tolerance of the measured one and stay there (`Settles`)? | 1 bricklet, 3 sensors for it, 4 events (change, plug, unplug, enumeration, loss), values 0 to 2 modulo 4 with tolerance 1 |
| `two_bricklets` | Is a bricklet served whatever happens to the other one? | 2 bricklets, 2 sensors each, 2 events, 2 values |
| `receive_path` | With bytes in pieces of any length, callbacks registered, replaced and removed by two threads, a device destroyed, a loss and a disconnect at any time: are packets put together as sent (`IsStream`), does a call that no registration overlaps get a function, its user data and the value sent (`RightCall`), is at most one packet dispatched after the receive thread has ended (`AtMostOneLate`), none after the disconnect has returned, and nothing at all after the disconnected callback for it (`QuietAfterDisconnect`), and does every packet lead to a call that somebody waits for (`Delivered`)? | a stream of 2 packets, 2 and 3 bytes long, a buffer of 4, values modulo 4, 2 registrations, a callback of the temperature bricklet; a function ID that has no wrapper is left to the proofs |
| `distance` | While the connection breaks and the owner subscribes, unsubscribes and destroys the client: does the broker come to retain the value of the bricklet (`RetainedSettles`), is the connection replaced (`Reconnected`), does the destructor return (`DestroyReturns`), do messages reach their callbacks (`Heard`)? | values 0 to 2 cut off at 1, 1 change, 1 report in the queue, 1 break, 1 message, 2 subscriptions |

What the passing runs leave out on purpose. `single_reporter` and `reconnect` restrict what callers do
to where the code keeps its promises. More places at which the code does less than its comments say,
met while modelling and without a run of their own:

* After a loss without a pending auto-reconnect, `ipcon_disconnect` in `ipcon_destroy` returns
  E_NOT_CONNECTED (2192): the callback thread is not ended and goes on with a freed `IPConnection`.
  This is why `requested`, which checks `DestroyTerminates`, has no losses.
* `getTemperature` ignores that its call failed and returns an uninitialised variable
  (BrickletTemperature.cpp:58), which is published. `SensorLogger` has this (`Get`), and `Settles`
  shows that a later report puts it right.
* A failing `ipcon_connect` joins the callback thread with `socket_mutex` held (1926, 1645), although the
  comment at 2207 says why this must not be done: the thread may wait for the same mutex to handle a
  loss. Both wait for ever. `CallsReturn` fails when a connection gets lost, `ipcon_connect` is called
  again and fails.
* After a failed disconnect probe the callback thread destroys the socket without joining the receive thread (1531), which is still in
  `socket_receive` on it, or has read `ipcon_p->callback` and is about to put into its queue, which a disconnect
  may end and free meanwhile. `ReceiverJoined` and `ContextAlive` say that this takes the report of a probe thread
  (`ProbeReported`), and it is why only the receive thread reports in `single_reporter`.
* When `auto_reconnect_pending` is stale (next point), `ipcon_disconnect` ends the callback context beside a live socket, whose
  receive thread may be about to put into it: the other case of `Abandoned`.
* `ipcon_handle_disconnect_by_peer` sets `auto_reconnect_allowed` without the mutex (1691), possibly after a disconnect has cleared
  it: the callback thread then reconnects a connection the application has closed, and `ipcon_disconnect`, which joins that
  thread, returns only when the daemon can be reached, with a new connection open.
* Called from a callback, `ipcon_disconnect` cannot wait for its own thread. The connected and disconnected callbacks that are
  queued by then are called after it has returned (1992-1997, 2209-2214); packets are not. `QuietAfterDisconnect` says so.
* What is put behind the exit item is thrown away with the queue. `NothingLost` speaks of what was there before.
* `auto_reconnect_pending` is set without the mutex (1554), possibly after another thread has
  connected. `ipcon_disconnect` then takes the abort branch, returns E_OK and leaves the connection
  open: `DisconnectCloses` fails when `ipcon_connect` is called a second time.
* `NoNullUse` and `DisconnectCloses` hold where `single_reporter` checks them, and not much further: TLC finds a
  NULL dereference with two sockets, two losses and four calls as soon as `ipcon_connect` is called again, a request may fail to be
  sent, a probe may fail, or a second thread or a callback disconnects. The callbacks of the sensor logger do send
  requests. Neither is proved, therefore.
* `ipcon_connect_unlocked` clears `auto_reconnect_allowed` after it has started the receive thread
  (1982), so that a loss reported by then is not followed by a reconnect, which is why
  `ReconnectsAfterLateLoss` speaks of later ones.
* Packets queued before a loss are dispatched after it (1672-1673).
* `device_register_callback` stores the function before its user data (1323-1324), and the wrappers of the bindings
  read the user data first: a function registered while a packet is dispatched may be called with the
  user data of the former one; and for enumerations the function is tested and then loaded again (1592-1597), so that
  removing it in between makes the callback thread call NULL. `RightCall` speaks of calls that no
  registration overlaps. The sensor logger registers the callbacks of sensors in the callback thread itself.
* Nothing ends the callback thread but its exit item, except that `sem_wait` may be interrupted by a signal: then
  the loop just ends (1652-1655, with a FIXME), and a later join waits for nobody while packets pile up.
* A partial `send` is taken for success, and the rest of the request is never sent (2050).
* The destructor of `MqttClient` disconnects before it stops the thread, which may reconnect in between;
  `mosquitto_lib_cleanup` is called while the thread may still use the library, `mosquitto_destroy` never. `join` throws in a thread that `run` was never called in, and
  the destructor calls it always: then the program ends (`aborted`).
* `subscribe` adds its callback after the broker knows of the subscription (MqttClient.cpp:218-221): a message that
  comes in between is dropped. The vector of callbacks is changed without a mutex while the thread may iterate
  over it, or hold an iterator into it (MqttClient.cpp:161-169): `erase` and `emplace_back` make it dangle. After a reconnect subscriptions are not renewed. `Heard` leaves these out.
* A value that is published while there is no connection is lost until the bricklet's next change; so is a report that comes
  between setting the period and registering the callback (BrickletDistanceIr.cpp:67). A distance of 0 is not
  published as the first one, because the last value starts as 0. `RetainedSettles` says so.
* `SensorLogger` destroys `m_mqttClient` before `m_sensors` and `m_sensorsConnection`, whose callback thread may still
  publish through the destroyed client. As `run` never returns, this only happens at the end of the process.
* The two expected fields, "protected by request_mutex", are read without it (1780), which `requests`
  shows to be harmless.
* Destroying one of two devices with the same UID removes the entry of the other one (1165), so that
  `Found` speaks of devices without a twin. In the logger it takes a race: a bricklet is plugged out and in
  while the receive thread handles a packet for its old device, and the old device is freed, by the
  receive thread, after the new sensor has been created. The new sensor then gets no answers and no
  reports. `Tracked` leaves out bricklets with a twin one of whose devices was given up, and `Settles`
  has it as its premise that the bricklet has an entry.
* `SensorLogger` shortens a UID of four or more characters by its last one (SensorLogger.cpp:53-58), which the comment calls
  a workaround for 32-bit builds; the code does it in every build. The sensor then belongs to another UID, and
  gets neither answers nor reports. The bricklets of the model have UIDs of three characters.
* The topic of a value is the type of its sensor (SensorLogger.cpp:92): two sensors of one type overwrite
  the retained value of each other.
* When other programs enumerate, a bricklet gets a second sensor. Disconnecting erases one; the
  others stay in `m_sensors`.

Why the bounds are enough. What goes wrong in the lifecycle needs a connection and its
replacement (2 sockets), a context and its successor (2 contexts), and one loss that is handled late;
a third socket and a second loss (`single_reporter`) let a report be two connections old. Three
calls are connect, one that races, and one after it. In `reconnect` a third socket lets the reconnected connection be used and
a third context lets `ipcon_connect` follow an abort: `ReconnectEnds` is then met by each of its ways out, not by the bound. Two sequence numbers make wrapping around happen
with the third request, which takes 16 requests with the code's 15. A table that grows by one
grows with every second device. Two calls in two threads are one change of flags
during one call, wherever the change has got to. With `Width` 4 and a tolerance of 1, an uninitialised value of 3 makes the
threshold wrap around, and the values 0 and 2 are further apart than the tolerance; three sensors are
one before and one after an unplugging, and one more by an enumeration; four events are enough for the race above with a
change of the value after it. A buffer of 4 bytes holds the longer packet and the beginning of another one, so that packets are cut in their header and
behind it, and the buffer gets full. Two registrations are one that is replaced or removed. A change
after a break is what puts right what the break has lost, and a value above the maximum follows one below it. For the
properties with a theorem the bounds do not matter.
`CHECK_DEADLOCK FALSE` is in every configuration because counters end every behaviour: no more
calls, requests, items or devices.

Each passing property is broken by at least one small change to the code: `PROJECT.json` lists
these as mutants, and the modules carry them next to the definition they change.

### Fairness

Threads are scheduled: weak fairness on each thread's own steps. Whether the application calls
anything, a packet arrives or a connection is lost is not fair. Strong fairness is assumed for
taking `socket_mutex` and `request_mutex`: a thread that waits gets a mutex that becomes free
again and again. The code justifies it where it matters: the only loop that takes `socket_mutex`
repeatedly is the reconnect loop, and it sleeps 100 ms between its rounds to let others in (1576).
`ReachableSpec` adds that of infinitely many connection attempts one succeeds; without that,
auto-reconnect promises nothing.

`FairSpec` of `SensorLogger` has weak fairness of the two threads, which includes that the lost connection is
replaced (see `reconnect`), and strong fairness of what bricklets send: a message waits while the
receive thread is busy, and is not lost for that. Changes of the bricklets are not fair.

`FairSpec` of `ReceivePath` has weak fairness of the callback thread, of a registration that has begun and of
a disconnect that has begun, but none of the receive thread: `Delivered` speaks of packets it has put
into the queue.

`FairSpec` of `DistanceLogger` has weak fairness of the threads, of the bricklet's reports and of what is on
the wire, and strong fairness of `Reconnects` and `OnMessage`: of infinitely many connection attempts
one succeeds, and a message that waits is handled by one of infinitely many calls of `mosquitto_loop`.

`FairSpec` of `DeviceRequest` does not make waits expire: `Answered` shows that the event alone wakes
callers, which a timeout would hide. `CallsReturn` has the fairness of the timeout (`WaitsExpire`)
as its premise, because a lost answer ends no wait.

## What is proved

Checked by TLAPS for every value of the constants that fulfils the named assumptions (finitely many
producers and workers, NULL is no device, thread names are not numbers and the like).

* **IpConnectionProofs.** `TypeCorrect`. `ProbeCorrect`: `ProbeInv` is inductive and implies
  `ProbeSocketLive`. The probe thread takes no mutex, so that its property says nothing about who
  may change `socket`; the strengthening says who holds `socket_mutex` between which steps
  (`MutexHeld`), whether there is a socket then (`SocketWhere`), and that the probe thread has ended
  from its join until the mutex is given back (`ProbeEnded`). All the other invariants of the lifecycle rest on it.

  `ClosesOnlyLostCorrect`: `LossInv` says that the `socket_id` in each report of a loss, whether in the queue, in
  the item that is dispatched or in a worker that still has to queue it, is that of a lost or of a former socket.

  `ReceiverJoinedCorrect`: who closes a socket other than for a report joins its receive thread first (`JoinsFirst`, with
  `CloserJoined`: the flag is cleared, and the thread has ended, before the mutex is given back). The callback thread does not
  join; until a probe thread has reported a loss (`ProbeReported`) every report that is queued or dispatched was the last step
  of a receive thread (`OnlyReceiversReport`), so that the socket closed for it is that of a thread that has ended
  (`ReceiversAlone`). After such a report this no longer holds, in the code either.

  `ContextAliveCorrect`: `ContextInv` says that who has taken a callback context to end it (2207: outside of the
  mutex) is the only one (`OneTaker`), and that `ipcon_p->callback` is another one (`TargetAlive`), for whatever
  threads and callbacks call, and however many connections get lost. A failing `ipcon_connect` is left out, which keeps the mutex
  while it joins. For the workers `FoundCurrent` says that what one of them has found is still
  `ipcon_p->callback` as long as its socket is the current one: who ends the context joins the worker first. `Abandoned` are the
  two ways in which the code ends it without that join, and the reason why `ContextAlive` needs `ReceiverJoined`.

  `DestroyTerminatesCorrect`, under `NoneLost`: no connection gets lost, and callbacks neither disconnect nor
  connect again; any number of application threads may connect, disconnect, send and destroy, and every
  `thread_create` may fail. TLC refutes the property without any of the three: with a loss (2192, above), and after a callback
  has disconnected, when its own thread is not joined. `KeptInv` is inductive under `NoneLost`: nothing
  is reported (`NothingReported`), callbacks do nothing but send (`CallbacksSend`), and without a
  socket there is a context only while `ipcon_connect` is under way (`CallbackUsed`); the contract
  of `ipcon_destroy`, that no other thread is inside of a function, is `DestroysAlone`.
* **PacketQueueProofs.** `QueueCorrect`: `QueueInv` is inductive. Its parts are the shape of the list
  (`ListInv`), that an item to be linked is in nobody else's hands (`FreshInv`), the count
  (`CountInv`: the items of the list are the semaphore, plus the producers that still have to
  release it, plus one if the callback thread has acquired it), and that what was linked before the
  exit item is in front of it (`ExitInv`). No producer has to be idle for that. From it: `GetNeverFailsCorrect`, `NothingLostCorrect`,
  and `FifoCorrect`, that each step is a step of `Fifo` or leaves its variables alone.
* **DeviceRequestProofs.** `TypeCorrect`, by which no request and no answer has the sequence number 0 of callbacks, and `OwnAnswerCorrect`: a call takes its own answer, or
  one whose header was created a multiple of `SequenceNumbers` requests before or after. The
  invariant is that every packet, wherever it is, has the sequence number of its ticket:
  `ticket = k * SequenceNumbers + sequence`. The proof does not need the two unprotected fields to
  have any particular value, which is why their race is harmless for this property.
  `TimeoutsExplainedCorrect` and `OnlyOwnAnswerCorrect` say what holds before the first timeout: `TurnsInv` is that
  exactly one request is under way (`OneUnderWay`) while a caller holds `request_mutex` and waits, somewhere between the
  wire, the hands of the receive thread and `response_packet`, and none otherwise. So the answer is there when the
  event is set, and the sequence number is not even needed; only answers that come after a timeout are told apart by it.
* **ResponseExpectedProofs.** `GetterCorrect`: `GetterInv` is inductive. What a getter returns depends on
  whether it waits, which was decided when its header was created: hence the strengthening `FlagInv`, that the
  flag of a getter never changes, and that a call under way has the response bit if it is one of a
  getter, and always if it waits. From it: `GetterAnsweredCorrect`, `SetterDetectsCorrect`. They hold for the
  bindings of other bricklets too, as long as they fulfil `FlagAssumption`.
* **DeviceTableProofs.** `DeviceCorrect`: `DeviceInv` is inductive. The reference count is the number
  of workers that hold the device plus one for the owner (`CountInv`); the table has one entry per
  key, each for a device that exists and has that UID, and a device without an entry is a twin
  (`TableInv`). From it: `NotFreedInUseCorrect`, `FreedWhenUnusedCorrect`, `NoDanglingCorrect`,
  `FoundCorrect`. `InBoundsCorrect`: entries fit into the memory of the table.
  `EntryKeptCorrect`: a UID keeps its entry until a device with it is freed, by which `SensorLogger` finds devices.
* **ReceivePathProofs.** `FramingCorrect`: `FramingInv` is inductive, for buffers of any size that hold one packet
  and streams of any packets. Its core is `Contiguous`: the buffer holds what was received since the start of the next
  packet. So the byte that is taken for a length is one, a packet cut off the front is the next one, and an
  incomplete packet leaves room in the buffer. `PathImplementsFraming`: each step of `ReceivePath` is one of `Framing` or
  leaves its variables alone; from both, `IsStreamCorrect` and `NeverFullCorrect`. `DisconnectInv` says how far
  `ipcon_disconnect` has got, what holds the callback thread up then, and that no packet is taken once
  `packet_dispatch_allowed` is cleared; `LateInv` that there was no late call as long as the receive thread has not ended
  or a packet is still being dispatched. `RequestInv`: the item of the requested disconnect is queued last, only the exit
  item comes behind it. From them: `QuietAfterDisconnectCorrect`, `AtMostOneLateCorrect`.
  `RightCallCorrect`: in `RightCallInv`, `Paired` says that a function that is registered has its own user data, except
  in the slot where somebody is registering, and `LoadedInv` that what the callback thread has loaded so far is still what is
  registered, as long as no registration has overlapped.
* **SensorLoggerProofs.** `LoggerCorrect`: `LoggerInv` is inductive, for any number of bricklets, sensors and events.
  `ThreadInv` says who owns a device: the sensor in the list that has it, or the one under construction, each device
  once. From it and `DeviceInv`, `LoggerImplementsTable`: what `SensorLogger` does with devices are steps
  of `DeviceTable`, so that the theorems about the table hold for it; and `SensorAliveCorrect`. The other parts are about
  the order of packets in the queue: a bricklet that is there announces itself after it has disconnected
  (`PlugInv`), and before it reports (`OrderInv`, `OrphanInv`); a loss is the last packet (`LossInv`). They are what
  makes `HandlerInv` inductive, that the report that is dispatched is for a device in the list, and `ArmedInv`
  and `ServedInv`, from which `ArmedCorrect` and `TrackedCorrect` follow. `DevicesAssumption`: NULL is neither a device nor a
  value, and the table grows by at least one.
* **DistanceLoggerProofs.** `DistanceLoggerCorrect`: `ClientInv` and `SensorInv` are inductive. `ThreadInv` follows
  `m_running` and the thread of the client. `RightEntryCorrect` and `InOrderCorrect`: callbacks get messages in order and not
  twice, while patterns change and the connection breaks, and messages for their own pattern. The latter rests on `FoundEntry`,
  that what `find_if` returned is still an entry for the message when it is used, and has the exception `raced`: that
  nobody changes the entries from the search to the return of the callback is up to the caller.
  `RetainedCorrect` is the safety part of `RetainedSettles`: when nothing is under way and the last report and
  publication were not lost, the broker keeps the value of the bricklet. `ReportInv` and `PublishInv` follow the last
  value from the bricklet through the queue, `m_lastValue` and the wire.

Each of these invariants went through TLC before it was proved, with constants like those of the run whose property it
strengthens; the runs in `PROJECT.json` have the properties themselves.

Every invariant and every action property of the runs has a theorem, except `NoNullUse` and `DisconnectCloses`, which hold in too narrow a
use of the connection for a theorem about them to be worth its hypotheses. Only model-checked: these two; the liveness properties
(`CallsReturn` of both modules, `JoinsReturn`, `ReconnectEnds`, `ReconnectsAfterLateLoss`, `Drained`, `Answered`, `Settles`, `Delivered`,
`RetainedSettles`, `Reconnected`, `DestroyReturns`, `Heard`), because the provers do not handle fairness; and that the tables of
`Bindings` fulfil `FlagAssumption`, which TLC evaluates.

## What is not modelled, and what was abstracted

* The Windows branches of the wrappers, and memory orderings weaker than one load or store at a
  time. Other plain fields that are read without a mutex (`receive_flag`, `auto_reconnect_allowed`)
  are atomic in the model.
* The contents of packets. `IpConnection` treats each callback packet as one of a known device, and
  leaves answers to `DeviceRequest`. A `send` by a callback stands for every binding function.
* `DeviceRequest` has one device; header creation of other devices of the connection takes sequence
  numbers too, which only makes numbers repeat sooner, and `OwnAnswer` is stated in requests made.
* Loss of memory: `malloc` and `realloc` are not checked by the code and do not fail in the model.
* In `SensorLogger`, an answer that comes after its call has timed out is ignored; for the receive thread
  it is a packet that takes and gives back a reference like a report does. The topic is the
  type of a sensor: the bricklets of the model have different types. Comparing UIDs and shortening longer ones are not modelled, nor are
  bricklets of other kinds, which the logger ignores. The MQTT client takes every value.
* The type invariants of `SensorLogger`, `Bindings`, `DistanceIr` and `MqttClient` are there for the proofs; they are no
  properties of a run.
* `ReceivePath` has the framing and the callbacks of one connection, `IpConnection` what several of them do to each other:
  a packet that was queued before a loss and is dispatched after the reconnect is in neither.
* The LCD class, Base58, SHA-1, HMAC and authentication: sequential conversions without state shared with
  anything modelled. The LCD class and authentication are used by no program of the repository.

## Plan

Done: `IpConnection`, `PacketQueue`, `DeviceRequest`, `DeviceTable`, `SensorLogger`, `ResponseExpected` with `Bindings`,
`Framing`, `Callbacks` and `ReceivePath`, `DistanceIr`, `MqttClient` and `DistanceLogger`, in that order, and theorems for
their safety properties. Next, all of them proofs:

1. An abstract connection (requested, connected, lost, closed) that `IpConnection` implements.
2. `NoNullUse` as a theorem, with sends that notice a loss: which pairs of reporters are harmless.
3. `DestroyTerminates` with losses, for the destroys that find a socket or a pending reconnect.
