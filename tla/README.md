# ZTransfer in TLA+

ZTransfer (`src/`) transfers one file from a client to a server, once over TCP
and once over UDP.  This directory holds TLA+ modules that model both
transfers and the programs that run them one after the other, TLC
configurations that check them on small instances, and proofs of the safety
properties for every file, chunk size and window setting.  Paths below are
relative to the repository.

## The system

| Component | Source | State | Operations |
|---|---|---|---|
| UDP client | `src/client/udp.py` | a state machine (INIT, WAIT_CREQ_ACK, RAPID_SEND, RAPID_RECV, FIN), sets of confirmed packets (in all, in this window), the window sent, the congestion window, counters, SIGALRM | the iterations of `initiate_transfer`, two alarms |
| UDP server | `src/server/udp.py` | a state machine (INIT, WAIT_CCREQ, TRANSFER, FIN), the missing packets, the accepted request and address, the buffer | the iterations of `listen_for_transfer` |
| TCP client | `src/client/tcp.py` | a state machine (INIT, WAIT_ACK, TRANSFER, FIN), the packet number, the position in the file | the iterations of `initiate_transfer` |
| TCP server | `src/server/tcp.py` | a state machine (INIT, WAIT_CCREQ, TRANSFER, FIN), the request, the bytes received | the iterations of `listen_for_transfer` |
| TCP connection | the operating system | two ordered streams, who closed its end | outside the repository |
| Packets | `src/ztransfer/packets.py`, `errors.py` | none | CREQ, DATA, ACK, RSND, FIN; serialisation, CRC32 |
| Profiler | `src/ztransfer/profiler.py` | transmission time per packet number | `pkt_tick`, averages |
| Callers | `cli.py`, `client.py`, `server.py` | none | run a TCP transfer, then a UDP transfer; print its numbers, write the file |
| Configuration, utilities | `src/config.*`, `src/utils.py` | none | constants, logging, hash |

Over UDP the client sends a CREQ (size, last packet number, checksum) until the
server acknowledges it.  Then it sends windows of DATA packets; the server
stores each chunk at its place, discards the number from its set of missing
packets and acknowledges it.  A window ends when all of it is confirmed or when
its alarm goes off; what is not confirmed is sent again in a later window,
whose size follows the losses.  The server sends FIN when nothing is missing.

Over TCP the client sends the CREQ, waits for its ACK, and writes all DATA
packets and a FIN without waiting for anything; the server appends what it
reads and cuts the packet that was announced as the last.  Neither side sets a
timeout, and nothing confirms the file.  `client.py` and `server.py` run the
TCP transfer and then the UDP transfer; nothing else keeps them in step.  The
callers read the profiler and write what was received.

What is hard: datagrams are lost, damaged, delayed, reordered and duplicated;
the alarm raises a Python exception between any two bytecodes, also while an
ACK is being handled; three pieces of code decide about one update of the
window; clients other than the accepted one send to the server, and packets
carry no session, so that a client that was started again mixes with itself;
the counter of silent windows decides when a server counts as dead; sockets
fail in the middle of a window; the last chunk is short, and the two sides of
the TCP transfer number it differently; a link breaks with packets under way;
`recv()` on a connection the peer closed returns at once and for ever; the UDP
client may send while the server still reads the TCP stream.  `PROJECT.json`
lists these hazards at their lines, with the properties that would catch them
going wrong.

What makes the components correct:

- UDP server: it serves one client, an ACK is a promise, what it stores is the
  client's bytes at the right place, it finishes only with the whole file;
- UDP client: it never waits without an alarm, the loss it computes is that of
  the packets it sends again, but for the one packet whose ACK an alarm
  interrupted, each window is counted once, it stops;
- both: what the client counts as delivered is stored, a client that finishes
  without giving up leaves a complete server, and every run is one of the
  abstract transfer in `FileTransfer`;
- TCP: the server holds a beginning of its result at any time, and all of it
  after the FIN, the result being the file except where finding 6 says; all that
  a client that returned has sent is read and written, unless the link breaks or
  a packet does not fit; the two sides never wait for each
  other, and every run is one of the abstract transfer in `StreamTransfer`;
- session: the UDP transfer gets going after any end of the TCP transfer from
  which the server returns, and its first answer says how that one ended.

## The modules

| Module | What it models |
|---|---|
| `Packets` | packets as records of the fields a receiver reads; cutting a file into chunks, padding, the slice assignment of the UDP server |
| `UDPClient` | one action per iteration of the client's loop, its alarms, its `except` clauses |
| `UDPServer` | one action per iteration of the server's loop, and the caller that writes the file |
| `UDPTransfer` | both over a network; the properties and the inductive invariant |
| `FileTransfer` | the abstract transfer over UDP: chunks are stored, confirmed, the sender succeeds, the receiver saves |
| `UDPTransferHistory` | `UDPTransfer` with history variables about windows |
| `UDPClientOpen` | the UDP client alone against a peer that may send anything |
| `UDPServerOpen` | the UDP server alone with several clients, files of several sizes, and clients that were started again |
| `TCPConnection` | two streams of packets, ends that hang up, a link that breaks, packets that do not fit |
| `TCPClient`, `TCPServer` | one action per iteration of each loop, with the exceptions that leave it, and the caller that writes the file |
| `TCPTransfer` | both over a connection; their properties |
| `StreamTransfer` | the abstract transfer over TCP: the request is agreed on, a content arrives in order, the sender returns without being told more |
| `Session` | `TCPTransfer` and then `UDPTransfer`, as `client.py` and `server.py` run them |
| `PacketsProofs`, `UDPTransferProofs`, `UDPRefinementProofs`, `UDPHistoryProofs`, `UDPClientProofs`, `UDPServerProofs`, `TCPTransferProofs`, `SessionProofs` | the proofs |
| `MC*` | the files the runs transfer |

### UDP

Variables keep the names of the attributes (`acked_packet_seqs`,
`session_sent_seqs`, `window_size`, ...).  `timer` is the armed alarm.
`acks_got` stands for `_acks_got_up_to_timeout > 0`, which is all the code asks
of it.  `old_drop_factor` is the pair (lost, sent) so that no fractions are
needed: factors are compared by cross-multiplication.  `window_size` is the
ceiling of the code's number, since the loop sends while fewer than
`window_size` packets are out; that is exact, because the only division is
followed by no multiplication (rapid start is over by then).  `to_send_seqs` is
computed where it is used.  The configured maximum of rapid start is a constant
of no module: `client/udp.py:38` reads it and nothing uses it.  The iteration
order of a Python set is not specified, so a window is any set of the right
size; the two runs that show a particular execution (`SmallIntOrder`) use the
order CPython has.  `toServer` and `toClient` are the packets that may still
arrive.

`ClientStarts` .. `CREQTimeout` are the states INIT and WAIT_CREQ_ACK with every
path that repeats the CREQ; the states RAPID_SEND (`RapidSendNothingLeft`,
`RapidSendWindow`, `RapidSendFails`) and RAPID_RECV (`RapidRecv*`) follow the
order of their tests.  `HandleRRecvTimeout` is the `except RRecvTimeout` clause;
`RRecvTimeout` takes it between iterations and `RRecvTimeoutInAck` between the
statements of the handling of an ACK or RSND, where the first set is updated,
the second perhaps, and the packet is not counted.  `RapidRecvUnexpected` and
`WaitUnexpected` end the transfer, because the warning they log reads
`packet.ptype`, which packets do not have, and the generic `except` clause
returns.  `AlarmAfterReturn` is the alarm that was left armed going off in the
caller.  On the server, `TransferData` stores, discards and acknowledges in one
iteration; `TransferDataAckFails` is the `sendto()` that no `try` surrounds;
`SaveFile` and `SaveFileFails` are the lines of the callers up to the writing of
the file.

In `UDPServerOpen`, `client_files[c]` are the files the client at address `c`
has sent packets of: more than one when it was stopped and started again, and
packets of both runs are still under way.

`UDPClientOpen` and `UDPServerOpen` are not separate models: they are what each
program looks like from the other one's side.  `UDPTransfer` states that it
implements both.  `AnyPeer` is the client's, with `WindowBound` 0, since the
server of this repository sends no RSND; it leaves what becomes of `toServer` to
the network, so its specification is about the client's own variables only.
`ManyClients` is the server's, with one client that has one file; its action
`LeavesNetwork` takes what the server sent off the network.

### TCP

A stream is the sequence of the packets that were written and not yet read;
each is 1000 bytes, which both sides write with one `sendall()` and collect with
a loop of `recv()`, so that how a stream is cut into segments does not show.
`link` is "closed" until the server listens, then "listening", "up" when the
client connected, and "broken" when the connection failed; what had arrived by
then can still be read (`LinkBreaks` keeps any beginning of each stream) and the
next `recv()` raises.  `hung_up` holds the ends whose socket was closed.  A
write to an end that is gone may succeed or raise.  `MisfitArrives` puts a
packet into the stream that the receiver cannot use where it stands: one whose
CRC or header `deserialize_packet` rejects (`BAD_CRC`, `BAD_HEADER`), an ACK of
another packet, a FIN.

`current_sequence_num` and `byte_position` are the client's two ways to count;
`TCPLastSeq` is what it announces.  `Slice` is `data[:n]` of Python, for a
negative `n` too, with which the server cuts the padding off.  ABORTED is a
return on an error, CRASHED an exception that leaves the function or its
caller.  The caller of the server writes what was received after either kind
of return: SAVED after a FIN, SAVED_CUT after an error.  The loop that collects
1000 bytes from an end that hung up is a state, not an action
(`TCPServerSpins`, `TCPClientSpins`): it changes nothing and never ends.

`TCPResult(file)` is what the server makes of a file: the file, or, when its size
is a multiple of the chunk size, all but its last chunk and a chunk of zeros
(finding 6).  It is the content of the abstract transfer: `StreamTransfer` has
the receiver get some content in order and completely, and says nothing of where
that content comes from.

### Session

`Session` conjoins the two transfers.  `InUDP(Step)` is a step of the UDP
transfer, guarded so that the client leaves INIT only after the TCP client
returned, and the server only after its caller wrote the TCP file; `InTCP(Step)`
is a step of the TCP transfer.  A packet the UDP client sends before the
server's port is bound stays in `toServer` or is lost.

### Conventions

Operators whose comment begins with "Seeded fault" are wrong on purpose and
used by no specification: putting one in the place of the definition that
follows it makes a property fail.  `PROJECT.json` pairs them.

Abstractions.  A UDP packet that `deserialize_packet` rejects has no record; its
delivery is `DeliverDamagedToClient` or `DeliverDamagedToServer`.  CRC32 and
SHA3-512 are collision free: a verified packet was sent, and a file's checksum
is represented by the file.  The server's own packet numbers and the
timestamps are read by nobody that matters here.  The alarm, of at least one
second, is taken not to go off in the few statements between being armed and
the change of state (`client/udp.py:304-312`), nor after the socket was
closed in FIN and before the loop is left.  The programs are taken as they run
without `-v`.  With it the UDP client logs every step, and an alarm that goes off
inside `logging.Handler.emit()`, which catches every exception, is swallowed: the
client then waits in `recvfrom()` with no alarm, and `NeverWaitsUntimed` does not
hold.  A direction of the UDP network is a
set, so that with duplication one element stands for any number of copies;
without (`Duplicates = FALSE`) a repeated packet is the same element until it is
delivered or lost.

## The runs

| Run | Question | Bounds |
|---|---|---|
| `udp_transfer` | honesty of both sides (`AckedIsStored`, `FinishedIsDelivered`, `StoredIsIntact`, `ChecksumMatches`, `NoFinDuringHandshake`, `RepeatedCreqIsHarmless`), the abstract transfer (`ImplementsFileTransfer`), each program as it is against any peer (`ClientMeetsAnyPeer`, `ServerMeetsManyClients`), types, and the invariant of the proofs `IInv` | a full and a short chunk, windows from 2, two silent windows, loss, damage, reordering, duplication, socket errors |
| `udp_liveness` | `SendingEnds`: a client that sends comes to an end; on a network that delivers often enough `RequestIsAnswered` and `FileIsSaved` | same file, windows from 1, no duplication |
| `udp_windows` | `UpdatedOncePerWindow`, `RetransmissionsAreCounted`, `GivesUpInTime` | three chunks, windows from 1 that grow and shrink, no duplication |
| `udp_client_open` | `NeverWaitsUntimed`, `AlarmHasWindow`, `LossWithinOnePacket` | three chunks, any packet of a peer, RSND while the window is at most 2 |
| `udp_server_open` | `OnlyClientsBytes`, `FinishesWithFile`, `AckIsPromise`, `FirstClientIsServed` | two clients, each started once or twice, files of 0 to 6 bytes in chunks of 2: empty, shorter than a chunk, full chunks, short last chunk |
| `session` | the TCP transfer (`TCPTypeOK`, `ReceivedIsPrefix`, `FinishedIsWhole`, `NoMutualWait`, `ReturnedIsReceived`, `EndsOrSpins`, and the abstract transfer, `ImplementsStreamTransfer`), and what becomes of the UDP transfer after it (`UDPAnswerConfirmsTCP`, `UDPServerIsCalled`, `SecondFileIsSaved`) | TCP files of 0, 2 and 3 bytes in chunks of 2, a link that breaks anywhere, packets that do not fit, `bind()`, `connect()` and sends that fail; then a UDP file of one chunk on a network that loses, damages and delays, without socket errors or duplication |
| `udp_premature_fin` | `FinIsFinal`, violated | |
| `udp_no_resend` | `DamagedIsAskedAgain`, violated | |
| `udp_gives_up` | `GivesUpOnSilence`, violated | |
| `udp_reported_retransmissions` | `CountsRetransmissions`, violated | |
| `udp_empty_file` | `ReceivedFileIsWritten`, violated | |
| `tcp_full_chunks` | `TCPSavedIsFile`, violated | a file of two full chunks, no faults |

Why the bounds are enough.  Two chunks tell the last chunk (short, written to
the end of the buffer) from the others; a window of two can be acknowledged in
part; `MAX_RESENDS_BEFORE_TIMEOUT = 2` tells one silent window from too many and
lets the counter be reset between.  Three chunks with windows from 1 give
windows of 1, 2 and 4, growth, decrease and windows that are confirmed by
half.  `FailedPacketsBound` caps `failed_packet_count`; it is 0 where no
property reads the counter, and 50, which no run reaches, where one does.
`SEQ_LIMIT` stands for 2^32 - 1.  `WindowBound` keeps a peer that asks to resend
without end from growing the window for ever.  `MaxStarts = 2` is the least
that mixes two files of one address.  The TCP files have no full chunk, one, and
one with a rest, so that the packet the server takes for the last is none of the
DATA packets, the one before the last, or the last; `tcp_full_chunks` has two
full chunks, and the proofs have files of every size.  The UDP file of `session`
is one chunk because the question is whether the transfer takes place; what takes
place in it is the question of the UDP runs, and `SessionIsUDPTransfer` carries
their results over.  What the runs show on these instances is proved for all
of them where the section on proofs says so.

Fairness.  `ProgramFairness` is weak fairness of what a program does on its own:
a runnable process is scheduled and an armed alarm goes off.  That is all
`SendingEnds` assumes; nothing is assumed of the network, and packets are not
duplicated for ever (a peer that repeats one ACK without end would reset the
count of silent windows).  `NetworkFairness`, which `RequestIsAnswered` and
`FileIsSaved` have as their hypothesis, is strong fairness of the delivery of
each packet: a packet that is sent again and again is delivered undamaged at
last.  `FileIsSaved` has the client's giving up as its other outcome, because
the server waits without a timer for a client that has gone.  `TCPFairness` is
weak fairness of both programs' own steps, reading a packet that has arrived
included.  It does not say that an end learns of a link that broke: a peer that
only vanished leaves a `recv()` without a timeout waiting, and the properties
have that as an outcome.  `ReturnedIsReceived` has the hypothesis that no packet
that does not fit arrives (`[]StreamFits`): one that does ends the server with
the rest unread.  `SessionFairness` is the same of all four loops, and
`SessionNetworkFairness` the hypothesis that `NetworkFairness` is for UDP.

## What the code does otherwise than it says

1. On FIN the UDP client enters the state FIN with its alarm armed
   (`client/udp.py:379-382`); the alarm sends it back to RAPID_SEND, or ends
   the caller with an uncaught exception (`FinIsFinal`).
2. The server drops a damaged packet of a transfer and asks for nothing
   (`server/udp.py:154-173`); its state machine in `README.md`, "RDT FSMs" (drawn
   in `rdt-client.jpg`: the two pictures are exchanged), says "corrupt packet /
   send RSND", and `README.md:113-118` describes that packet, which no line of the
   repository sends (`DamagedIsAskedAgain`).  The packet is sent again when the
   alarm of its window goes off.  The client's handling of RSND
   (`client/udp.py:370-378`) is modelled, and met by a peer that sends it in
   `UDPClientOpen`.
3. Silent windows are counted although windows that were confirmed completely
   lie between them (`client/udp.py:407-410`, `GivesUpOnSilence`).  The client
   gives up too early, never too late (`GivesUpInTime`).
4. The number of re-transferred packets includes packets that were never
   sent again (`client/udp.py:245`, `cli.py:71`, `CountsRetransmissions`); it
   is never too small (`RetransmissionsAreCounted`).
5. An empty file is received over UDP and never written: the average
   transmission time divides by zero first (`profiler.py:28`,
   `ReceivedFileIsWritten`).
6. Over TCP a file whose size is a multiple of 980 bytes arrives with its last
   980 bytes replaced by zeros, an empty file as 980 zeros, without any fault
   (`client/tcp.py:142`, `server/tcp.py:111`, `TCPSavedIsFile`): the client ends
   such a file with an empty packet that it does not count, so that the server
   cuts the last full chunk to nothing and stores the empty packet's padding.
   `FinishedIsWhole` says, and its proof shows for every file, that nothing else
   is ever different.

## The proofs

All are for every file of natural numbers, chunk size, window setting and choice
of failures that satisfies the named assumptions of `Packets`, `UDPClient`,
`UDPTransfer`, `UDPServerOpen`, `TCPConnection` and `TCPClient`.

`PacketsProofs` has the arithmetic all of them rest on: chunks hold the file,
chunks of different packets do not overlap, the last one ends with the file,
and storing one writes its bytes and no others.  `AnnouncedIsInRange` is the
reason why `FileAssumption` costs nothing: a file whose size fits the 32 bits it
has in the CREQ has only packets whose ACK passes the client's range check.

`UDPTransferProofs` proves `Spec => [](IInv /\ BufferTruth)` (`InvariantHolds`) and
from it `TypeOK`, `AckedIsStored`, `FinishedIsDelivered`, `StoredIsIntact`,
`ChecksumMatches` and `RepeatedCreqIsHarmless`.  What one program
knows of the other came in a packet that may be old, so no property of the pair
is inductive by itself: the packets under way must be true as well, and stay
true.  `NetworkTruth` says that an ACK on its way names a packet the server holds
and that a FIN on its way means nothing is missing; it is kept because the
server never un-stores a packet.  `ServerOrder` ties the server's variables to
its state, `ClientTruth` the client's belief to the server's state.  `IInv` is
their conjunction with the types.  `BufferTruth` adds that the bytes of every
packet that is not missing are those of the file.  The proof of each step has a
lemma for the client on its own, the client on a packet, the server on its own
and the server on a packet; a lemma about each side says that a step of the
other leaves its part alone.

`UDPRefinementProofs` proves `NoFinDuringHandshake`, with the strengthening that
while the client is in the handshake no DATA is under way and so none is stored
(`HandshakeInv`), and `ImplementsFileTransfer` for every file: a step of the
client is a confirmation of stored chunks, the sender's end, or a stutter
(`SenderMoves`), a step of the server stores, completes, saves, fails or stutters
(`ReceiverMoves`).  The abstract transfer lets a complete file without chunks
fail to be saved (`SaveFails`), and no other: that is finding 5.  The last
section proves `ClientMeetsAnyPeer` and `ServerMeetsManyClients`.  Each action of a
program is the same action of its open specification, where every definition is
met a second time as that of an instance, and what one program sends is, by
`IInv`, among what the other one's open specification lets arrive.  So what
`UDPClientProofs` and `UDPServerProofs` prove of a program alone holds of it here.

`UDPHistoryProofs` proves `UpdatedOncePerWindow`, because the client's two flags
tell at any time whether the update of the last window is due (`UpdateInv`), and
`RetransmissionsAreCounted`, because the packets that may be sent again, those
sent, not confirmed and not in the window that is out, have been counted and
not yet charged (`CountInv`); closing a window moves its losses there.
`GivesUpInTime` needs that the client's counter of silent windows, which only the
handler of the alarm writes, is late by no more than the one window whose alarm
is armed (`SilenceInv`).  That in turn needs that a window that got no answer
has none of its packets confirmed, so that no such window ends by being
confirmed and goes uncounted: `acks_got` and the two sets agree even where the
alarm interrupts the handling of an ACK.

`UDPClientProofs` proves `NeverWaitsUntimed`, `AlarmHasWindow` and
`LossWithinOnePacket` of `UDPClientOpen`, hence against any peer.  The first two are
inductive together with `window_size` being positive (`WindowInv`), which is what
makes a window that is sent not empty.  The third needs that the two sets of
confirmed packets agree on the window as long as its loss may still be computed
(`LossInv`): in RAPID_RECV, while the alarm is armed, and in RAPID_SEND when the
update is due.  The one step that makes them disagree, an alarm in the middle of
an ACK or a RSND, computes the loss itself from the set that lacks the packet and
marks the window as done, so the disagreement is of one packet and is not
inherited.

`UDPServerProofs` proves `ServerTypeOK`, `OnlyClientsBytes`, `FinishesWithFile`,
`AckIsPromise` and `FirstClientIsServed` of `UDPServerOpen`, for any set of
clients, each started any number of times.  `ServerInv` adds to them what the
server's states say (`StateTruth`) and that what it sent is true (`SentTruth`).

`TCPTransferProofs` proves `TCPTypeOK`, `ReceivedIsPrefix`, `FinishedIsWhole`,
`NoMutualWait` and `ImplementsStreamTransfer`, for files of every size.  The
numbers and positions of the two sides are related only through the stream,
so the invariant `TCPIInv` says: there is an `r` such that the server has read
the first `r` items the client writes for its file, what it holds is what these
items leave (`HasRead`), and the stream holds the items that follow, each perhaps
replaced by a packet that does not fit.  A packet that does not fit ends the
server, so an item that was replaced is never passed over.  `OrderInv` adds what
each side may conclude from the other one's stream: an ACK on its way was written
after the request was read, it is there as long as the client waits for it, no
FIN is on its way before the client returned, and a socket is closed when its
program ended and not before.  From both follow that no two waits face each
other and that each step is a step of `StreamTransfer` or a stutter
(`TCPSenderMoves`, `TCPReceiverMoves`).

`SessionProofs` proves that a session is a UDP transfer with pauses and a TCP
transfer with pauses (`SessionIsUDPTransfer`, `SessionIsTCPTransfer`), so that all
of the above holds in it, the two abstract transfers among it
(`SessionImplementsBoth`), and from both `UDPAnswerConfirmsTCP`: a client that was
answered has a server that left INIT, which it does after the TCP file was
written.

Only model-checked: the liveness properties (`SendingEnds`, `RequestIsAnswered`,
`FileIsSaved`, `ReturnedIsReceived`, `EndsOrSpins`, `UDPServerIsCalled`,
`SecondFileIsSaved`), which are outside what the prover can do, as is what a
recursive definition computes for every input (none is used).

## Not modelled, and what is left

Left out, because no state of the protocol is in it: reading the configuration,
logging, argument parsing, hash calls (`config.py`, `utils.py`, most of `cli.py`);
the byte layout of packets, a name that is cut in the middle of a UTF-8
character included; the values of transmission times and `lost_tick`, which
nothing calls.  `struct.error` for a file of more than 2^32 - 1 bytes is left
out: the files are those that can be announced.  A process that is killed is an end that
sends nothing more, which the loss of packets and the broken link cover; it
restarts with no state, since nothing is persisted, and that is `UDPServerOpen`
for the client.  Killing a caller while it writes the file is left out.

What could be added: TCP peers that are not this program beyond the packets
that do not fit; several TCP clients (the server accepts one connection and
closes); the choice of ports from the pool when several programs share a host.
