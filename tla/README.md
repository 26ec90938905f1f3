# A verification project for the ENC28J60 firmware

The program is the firmware of a Raspberry Pi Pico with an ENC28J60 Ethernet
controller: a driver (`enc28j60.c`), a small library of frames and answers
(`ip_arp_udp_tcp.c`), a web and UDP command server that switches a LED
(`server.c`), and a main program that starts everything and sends a few frames
(`main.c`). This directory holds TLA+ modules that model its core, TLC
configurations that check them, and TLAPS proofs of their most important
properties for every value of the constants.

## How to run it

    tlc -config rx_ring.cfg MCRxRing.tla      # the runs are listed below
    for m in *Proofs.tla; do tlapm $m; done

`PROJECT.json` names for every run its module and configuration, for every
definition that models code the lines it models, and for every property a
mutated definition under which TLC finds the property violated.

## Inventory

| Component | State | Operations | Works with |
|---|---|---|---|
| Receive path: `enc28j60_recv_packet` (enc28j60.c:351), the loop of `enc28j60_interrupt_handler` (server.c:25) | `enc28j60_rxrdpt`, `buf`, `plen`; in the controller the ring, ERXWRPT, ERXRDPT, ERDPT, EPKTCNT, the INT pin | poll, seek, read the header, copy, release space, decrement the counter | the controller stores frames at any moment; the falling edge of INT calls the handler |
| Transmit path: `enc28j60_send_packet` (enc28j60.c:320) | in the controller EWRPT, ETXND, the transmit buffer, TXRTS, TXRST, TXERIF | wait for TXRTS, reset after an error, load, start, check | called by main and by every answer of the handler |
| SPI transactions (enc28j60.c:16-164) | `enc28j60_current_bank`; in the controller ECON1.BSEL and the command under way; the FIFOs of the SPI port | select, command byte, data bytes, release; change of bank | shared by main and the interrupt handler without a lock |
| Initialisation and PHY (enc28j60.c:166-318) | the controller's registers | one sequence, once | leaves the initial state of the above; begins anew with every restart of the microcontroller, which the controller does not notice |
| Checksums (ip_arp_udp_tcp.c:39, :512) | none | `checksum`, `compute_sum`, the correction of a pong | used by every builder |
| Answers and frames (ip_arp_udp_tcp.c) | `macaddr`, `ipaddr`, `wwwport`, `info_hdr_len`, `info_data_len`; the frame itself, changed in place | `make_*` and `send_*` | called by the handler and by main |
| Stateless TCP (ip_arp_udp_tcp.c:214-507) | `seqnum`, nothing per connection | synack, ack, data with FIN | a client elsewhere that does keep a connection |
| Command server (server.c) | `svitLED`, `str`, `payloadlen`, `cmd_pos`, `cmdval`, `cmd`, `dat_p` | classify a frame, parse a URL or a UDP command, switch the LED, build a page | reads the frame in `buf`, answers through the library |
| Board set-up, console, LEDs (main.c) | GPIO pins | start-up sequence | `gpio_set_irq_enabled_with_callback` decides from when on edges are seen |
| Build files | – | – | – |

The dead code is left out everywhere: `enc28j60_drop_packet`,
`enc28j60_rcr16`, `enc28j60getrev`, `enc28j60_read_phy`,
`enc28j60_interrupt_enable`, `make_ip_echo`, and the loop behind `while(1);`
(main.c:79-89).

### What is hard here

- **Two actors on one ring.** The controller writes bytes into the ring while
  the handler reads and releases. Nothing but the position of ERXRDPT protects
  a frame.
- **An edge-triggered interrupt for a level.** INT stays low while EPKTCNT is
  not zero. The handler sees a frame only if an edge was latched for it or if
  it still polls.
- **Two contexts on one bus.** The main program sends its start-up frames with
  the GPIO interrupt enabled (main.c:63-77). The handler can run between any
  two bytes of main's transactions.
- **Failed transmissions.** TXRTS may not clear, TXERIF is never cleared.
- **Answers built in place** over the request, with fields that must be changed
  before the sum and others that must not be.
- **Arithmetic at its width**: carries of checksums, 8-bit and 16-bit lengths,
  an initial sequence number in steps of 512.
- **TCP without state** over a network that loses, repeats and reorders
  segments, with a page (525 bytes when the LED is on, 499 when it is off) that
  may be longer than the step of 512 between initial sequence numbers.
- **State that outlives a request**: the reply string, the bytes an earlier
  frame left in the buffer, the LED itself.
- **A controller that outlives the program**: a restart finds it in any bank,
  receiving, perhaps in the middle of a write to its PHY.

`PROJECT.json` lists every hazard at its line, with the properties that cover
it, or with the reason why none does.

### What makes each component correct

- Receive: every stored frame is handed over once, whole, in order; the ring
  leaks no space; reception never dies.
- Transmit: calls return; a frame under way is not disturbed; frames leave in
  order; a failure does not spoil later frames.
- SPI: a byte belongs to the command and register its sender named; the
  remembered bank is the chip's bank.
- Checksums: receivers accept what is sent.
- Initialisation: while the controller receives, its set-up is complete and
  consistent; every access reaches the register it names; the wait for the PHY
  ends.
- Server: a command takes effect only with the password; the answer goes back
  to the host the request came from and tells the state the LED has; lengths agree
  and nothing is written beyond the buffer.
- TCP: a client gets the page of its own request, or only that page is lost;
  the two sides fall silent; the LED is a register the client sets.

## Plan

All of the plan is done, in this order:

1. `FrameFifo`, `RxRing`, `MCRxRing`, `RxRingProofs` – receive path.
2. `Checksums`, `MCChecksums`, `ChecksumsProofs`.
3. `SpiBus`, `MCSpiBus`, `SpiBusProofs`.
4. `TxPath`, `MCTxPath`, `TxPathProofs`.
5. `Commands`, `TcpAnswers`, `Server` – both parsers, the segments of an answer,
   the branches of the handler; `ServerProofs`.
6. `RemoteLamp`, `TcpSession`, `MCTcpSession` – the stateless server against a
   client and a network; `TcpSessionProofs`.
7. `Config`, `ConfigProofs` – `enc28j60_init`; `Board`, `MCBoard`, `BoardProofs`
   – set-up and server composed, with restarts.

Every safety property, action property and refinement that a run checks is
proved; what could still be added is the code named as not modelled below.

## The modules

### FrameFifo: what the receive path promises

A counter of accepted frames and the sequence of frames served. `Serve` appends
the number of the oldest frame not yet served. `RxRing` is shown to implement
it (`ServedInOrder`), by TLC on the small instance and by TLAPS for all.

### RxRing: the receive path

The controller: `FrameArrives` (a frame that passed the filters begins),
`StoreByte` (one byte into the ring, unless that would run onto ERXRDPT),
`Commit` (header, ERXWRPT, EPKTCNT, and the edge if EPKTCNT was zero),
`Overflow` (the frame is dropped). The processor: `EnableIrq` (main.c:63, which
throws an old edge away), `EnterHandler`, and one action for every driver call
of the handler: `Poll`, `RecvCheck`, `Seek`, `ReadHeader`, `CopyByte`,
`FreeSpace`, `PacketDecrement`, `Filter`, `ExitHandler`.

`pc` is where the handler is, the other variables have the names of the code or
of the data sheet. Of a byte the model keeps which frame and which position it
came from: every property about contents is a property about origins. The two
halves of a pointer register, and the six header bytes, are one step. `Filter`
stands for the protocol work: the frame may be answered, which overwrites the
buffer. `BadFrames` lets the status of a frame lack the Received-Ok bit,
`EarlyFrames` lets frames arrive before main.c:63. The history variables `log`,
`taken` and `served` influence nothing.

### TxPath: one call of enc28j60_send_packet after another

Every register access of the function is an action, from `SendPacket` through
`Wait`, `CheckStuck`, `SetReset`, `ClearReset`, `SetEnd`, `WriteFrame`,
`StartSending` and `CheckError` to `Cancel`. The controller finishes a
transmission (`Transmitted`) or aborts it (`TransmitError`); then TXERIF is
raised and stays raised, and TXRTS clears or, as the comment at enc28j60.c:324
says, does not.

### SpiBus: bytes and contexts

The calls of `enc28j60_send_packet` and `enc28j60_recv_packet` are data
(`Call`): whether a call sets the bank, its command, register, bytes out and
bytes in. Every context walks through its calls byte by byte: `TestBank`,
`Select`, `SendCommand`, `SendData`, `ClockByte`, `FetchByte`, `Release`,
`RememberBank`, `Finish`. The chip takes the first byte after a selection as
the command and executes it with the next ones; a byte it was not meant to get
as data sets the bits it has (`SetEcon1`, `ClearEcon1`). Frames arrive at any
time. `Interrupt` hands the processor to the handler between any two of main's
steps, and the handler gives it back when it has read EPKTCNT as zero; to a
frame the handler answers with no packet, with one, or with two (a GET: the
acknowledgement and the page). `HeldOff` says whether the handler is kept out
while main loads a frame. FALSE is the code. With TRUE the handler still comes
in while main sends, but only where main is between two calls and its send
touches nothing yet: before a send, and at every turn of its wait for TXRTS
(`Interruptible`). What the runs and the proofs show with TRUE is therefore
that this is all that is missing: the bank the handler leaves behind, its own
packets in the transmit buffer, its transmission still under way and its bytes
in the receive FIFO do main no harm there, nor the other way round.

### Checksums

A builder finds a packet in the buffer (`Receive...`) or fills one in
(`Prepare...`) and completes it (`Make...`, `Send...`); `Verifies` is what the
receiver does. One block, that is one checksum with the bytes it covers, is
taken at a time, so a packet with an IP header and a segment is two blocks. The
answers are `MakeIp`, `MakeUdpReply`, `MakeSynAck`, `MakeTcpAck`, and for a page
`MakeTcpData` and `MakeTcpDataIp`, which work on what was just sent; the frames
main sends are `SendPing`, `SendUdp` (with the padding that `send_udp_packet`
counts in) and, for the IP header in front of both, `SendIp`. A header of a
segment keeps one byte for each address and port, one for its numbers and one
for its flags, and a length and a checksum of two bytes.

### Config: enc28j60_init

`Program` is the list of register accesses `enc28j60_init` makes: the reset,
then `SetUpRegisters`, composed of the buffers, the packet filter, the MAC, the
station address and the PHY, with the values the code computes. The driver
makes one access after the other: `SetBank` first if the remembered bank is
another, then `WriteRegister`, `Wait` (the loop on MISTAT.BUSY), `AtBank0`,
`EnableReception`; `Reset` and `Sleep` are `enc28j60_soft_reset`. The controller
takes its time: `ResetDone`, `PhyDone`; during a reset it hears nothing, and a
PHY register is written with what the MII registers hold when the write ends.
`Restart` starts the microcontroller again at any moment with its static data
initialised, and leaves the controller as it is.

### Commands: the two parsers

`AnalyseGetUrl` is `analyse_get_url`, `AnalyseDatagram` what the handler does
with a datagram, both on sequences of characters as the code goes over them,
with the password, the number of characters compared and the length of the scan
as constants. `ReadAsDocumented` says what the comment of `analyse_get_url`
promises, in terms of the path as a whole (`HasForm`, `FormValue`); a scan that
stops where no `/` came before is its named exception (`RunsOn`).
`TakenFromPayload` says that a command found in a datagram of any length is the
one behind the first comma of its payload, not of what an earlier frame left
behind it, and that none is missed if the length fits the byte the code keeps
it in.

### TcpAnswers: the segments of an answer

`Relative` is the loop of `make_tcphead` over the four bytes of a number,
`SynAck`, `AckFromAny`, `AckWithData` are the builders, and `Answers` is what the
handler sends for a segment. Two modules use it: `Server` for the fields of one
answer, `TcpSession` for the exchange.

### Server: the protocol work of the handler

A frame is a record of the fields the handler compares or a builder sets.
`LenArg` is the length the two tests of a frame are passed: `uint8_t` in their
definitions, wider in the header that `ip_arp_udp_tcp.c` does not include, so
what arrives is the length modulo the constant `LenArgMod`, 256 or 65536. The
builders change the received frame field by field (`MakeEth`, `MakeIp`,
`ArpAnswer`, `EchoReply`, `UdpReply`, `TcpFrame`, `TcpDataFrame`), so that a
field nobody sets keeps what it had, and `TcpDataFrame` builds on the
acknowledgement sent before it, as in the code. `Handle` has one disjunct for
each branch of `enc28j60_interrupt_handler`, in its order of tests. `str` is kept
from one datagram to the next. A page is its kind and its length.

### Board: set-up and server together

`Board` extends `Server` and takes `Config` as an instance. A step is one of the
set-up (`SetUp`), one frame handled once the controller receives and the set-up
is over (`Serve`), or a restart of both (`StartAgain`).

### TcpSession: a client that keeps a connection

The server is the www branch with the segments of `TcpAnswers`; its state is
`seqnum` and the LED. The client follows RFC 793: it opens connections one after
the other from the same port, asks for the LED to be on or off, repeats what is
not acknowledged, answers unexpected segments with an acknowledgement, takes the
page and closes. The network loses segments and lets those to the hosts of
`Reorder` overtake one another. `ends` is a history variable: the numbers the
client has reached.

### RemoteLamp: what a client sees of the LED

A lamp with requests: `Ask`, `Apply`, `Answer`, `Abandon`. `TcpSession` is shown
to implement it (`LampSpec`, by TLC on `MCTcpSession` and by TLAPS), with the request under way read off the client's
state.

## The runs

| Run | Module | Question | Answer |
|---|---|---|---|
| `rx_ring` | MCRxRing | Is every stored frame taken whole, once, in order, without losing space or an edge? | yes; 81,013 states |
| `rx_early` | MCRxRing | ... also if a frame comes between `enc28j60_init` and main.c:63? | no: reception is dead from the start |
| `rx_invalid` | MCRxRing | Is an invalid frame ignored, as its comment says? | no: the old buffer is worked on again |
| `tx_path` | MCTxPath | Do calls return, and frames leave in order and undisturbed, whatever fails? | yes; 680 states |
| `tx_error` | MCTxPath | Is only a frame that failed taken back? | no: after one error every later frame is |
| `spi_bus` | MCSpiBus | Is the bus used correctly if the handler is kept out while main loads a frame, and comes in anywhere else? | yes; 28,218 states |
| `spi_command` | MCSpiBus | ... and as it is, with the handler coming in anywhere? | no: bytes land in foreign commands |
| `checksums` | MCChecksums | Do receivers accept every checksum sent, and do the two routines agree? | yes, but for the pong's carry; 15,821 states |
| `checksum_pong` | MCChecksums | Is the corrected checksum of a pong always right? | no: the second carry is lost |
| `board` | MCBoard | From power-up or any restart to the answers: is the set-up consistent, and does the handler answer only what is for it, with lengths, addresses, LED, page and replies that agree? | yes; 6,805 states |
| `tcp_session` | MCTcpSession | Does a client that keeps a connection get the page of its own request from a server that keeps none, does the exchange end, and is the LED what it set? | yes, unless the page itself is lost; 177,469 states |
| `tcp_isn` | MCTcpSession | Has every connection numbers of its own? | no: a page longer than the step reaches into the next |

The properties and their meaning stand in the modules, each with a comment.

### Findings

Every run that expects a violation is a finding of `PROJECT.json`, with the
comment of the source it contradicts:

1. *rx_early.* `enc28j60_init` enables reception, main enables the edge later.
   A frame in between keeps INT low for ever.
2. *rx_invalid.* `len = 0` is assigned for an invalid frame, `rxlen` is
   returned.
3. *spi_command.* main drives the bus with the interrupt
   enabled. With `HeldOff = FALSE` and fairness the properties `BankRemembered`,
   `NoFrameForgotten` (the handler reads EPKTCNT through a broken transaction
   and leaves a frame with no edge to come), `FrameSentWhole`, `FrameUndisturbed`, `MainParks` (main
   waits for a byte the handler drained from the receive FIFO) and `AllTaken`
   fail too.
4. *tx_error.* TXERIF is never cleared.
5. *checksum_pong.* The carry of the corrected checksum goes one byte far.
6. *tcp_isn.* The initial sequence number steps by 512, the page of a LED that
   is on has 525 bytes.

Seen while modelling, and modelled as the code has it, without a run of their
own:

- An ARP reply for this address is answered like a request (ip_arp_udp_tcp.c:112).
- A datagram `t=` with a value other than 0, 1, ? is answered with the reply to
  an earlier one (server.c:174); `ReplyTellsLed` excepts exactly that.
- `info_data_len` is unsigned: a total length shorter than the headers becomes a
  large length, and the segment is taken for a request (ip_arp_udp_tcp.c:407).
  The inputs of `board` contain such segments.
- The prototypes in `ip_arp_udp_tcp.h` and the definitions differ in the width
  of lengths (ip_arp_udp_tcp.c:102, :125). With a byte, frames of 256 to 296
  bytes, and the same beyond 512 and so on, are taken for too short and stay without an answer. `board` runs with
  the byte, the proofs hold for either width.
- `analyse_get_url` takes a digit where its scan stops for a command, also if no
  `/` came (server.c:229); `RunsOn` names the case.
- Only the first five characters of the password are compared, as its comment
  says; of a shorter password the zero that ends it is compared too, so it is
  never accepted.
- With reordering towards the server as well (`Reorder` with "board"), a delayed
  duplicate of a request is carried out again in a later connection, and
  `LampSpec` fails; with the real page lengths and reordering,
  `PageIsForThisConnection` fails because of finding 6, by the page for a LED that
  is on alone (theorem `LongPagesMistaken`). A stateless server cannot
  do better than the first, and no line of the source promises it.
- `send_arp_request` leaves the source address of the Ethernet header zero;
  `baseurl` has no room for the zero that ends it; the comment on the SPI clock and the call name different rates (enc28j60.c:203).

### Bounds, and why they are enough

- `rx_ring`: a ring of 12 bytes, headers of 2, frames that take 4 or 8 bytes,
  six frames. Frames wrap at every even offset, the header never splits (an
  even ring and even frames: neither does it in the code), a long and a short
  frame fill the ring, EPKTCNT reaches its limit of 2 with room left, one frame
  is longer than the handler's buffer and one below its filter. Six frames are
  more than one turn of the ring, and the proofs remove these bounds.
- `rx_early`, `rx_invalid`: two frames; one to go wrong, one to show that
  nothing recovers.
- `tx_path`: four calls, two failures: before, between, after and next to each
  other.
- `spi_bus`: the five start-up frames of main.c and three received ones, at any
  time: the handler is called for one, finds another while it works, and is
  called again, before, between and after main's sends. The proofs remove both
  numbers.
- `spi_command`: one frame to send, two received. The race
  needs no more.
- `checksums`: bytes of two bits (`Base = 4`), so that carries of every kind
  occur and all header contents are tried; payloads of up to three bytes with
  every content and two longer ones, so that padding up to three bytes
  (`MinUdpData`) is none, some and all of the data; one option of four bytes.
- `board`: two hosts; one sends every kind of frame (ARP requests and replies,
  pings of three lengths, segments of every combination of flags the handler
  tells apart, with and without TCP options, requests with every kind of path,
  a total length that is too short, datagrams of every form), the other enough
  to interleave with it. Password (three characters), characters compared (two)
  and scan (four) are scaled down, so that every way the scans end occurs, and so
  is the byte that keeps the length of a payload (`LenMod = 16`): there are
  payloads up to and beyond it, with the command before, at and behind the kept
  length, and commands an earlier frame left behind a shorter payload. Pings of
  260 bytes wrap in the byte of `LenArg`. What
  the handler keeps is the LED, the reply and `seqnum`, so the interesting
  sequences are short; `SeqnumBound` stops `seqnum` after one step. One restart
  (`MaxRestarts`) at any of the accesses, in any state of the controller.
- `tcp_session`: bytes of four bits, so that numbers wrap and the second of the
  client's initial numbers carries through all four bytes; two connections
  (`MaxConns`), one loss (`MaxLoss`), repetitions while fewer than three segments
  are under way (`MaxQueue`), two SYNs while anything is under way (`MaxSyns`:
  more, and the four-bit `seqnum` comes round, which with eight bits takes 128),
  segments to the client in any order. The page is just shorter than the step
  of `seqnum`, which is finding 6 set aside. The proofs remove these bounds.
- `tcp_isn`: the page one byte longer than the step, no reordering, three SYNs.

### Deadlock

`CHECK_DEADLOCK FALSE` is set where a behaviour ends when the bounded number of
frames has been used up and the processor is parked: the program then spins in
`while(1)`; and in the runs of `TcpSession`, where the client has no connection
left to open. The `checksums` runs and `board` have no end and check deadlock.

### Fairness

- `RxRing!FairSpec`: weak fairness of the processor's next step. It does not
  stop, and a latched edge is served by the hardware. No fairness for the
  controller: frames may cease to come at any byte.
- `TxPath!FairSpec`: weak fairness of the function's next step and of the end
  of a transmission. Calls need not be made.
- `SpiBus!FairSpec`: weak fairness of each context's next step, of the
  interrupt and of the end of a transmission. A context that does not have the
  processor is not enabled, so nothing promises main progress while the handler
  runs.
- `Config!Fairness` (also `Board`'s): weak fairness of the driver's next access
  and of the ends of a reset and of a PHY write, which the data sheet bounds.
  Frames and restarts need not come.
- `TcpSession!Fairness`: weak fairness of receiving at either end and of the
  client's timer. A segment under way and not lost arrives; losses are bounded
  by `MaxLoss`. The client need not open connections or give up.

Liveness is claimed only under these: `EveryFrameTaken`, `SendReturns`,
`MainParks`, `AllTaken`, `ComesUp`, `ServedUnlessPageLost`, `FallsSilent`.

## What is proved

`RxRingProofs`, for every ring size, header and buffer length, limit of
EPKTCNT, set of frame lengths and number of frames that `RxRingAssumption`
admits (a frame, with its header, fits the ring with two bytes left and is longer than its CRC):

| Theorem | Statement |
|---|---|
| `Invariance` | `Spec => []IInv` |
| `TypeCorrect` | `Spec => []TypeOK` |
| `UnreadFramesIntact` | `Spec => []UnreadIntact` |
| `FramesWhole` | `Spec => []FrameIsWhole` |
| `WakeupNotLost` | `~EarlyFrames` implies `Spec => []NoLostWakeup` |
| `SpaceNotLost` | `Spec => DropOnlyWhenBehind` |
| `ReceiveImplementsFifo` | `~BadFrames` implies `Spec => ServedInOrder` |

**The argument.** "The controller does not overwrite an unread frame" is not
inductive: nothing in it says where frames are. `IInv` adds the geometry. All
addresses are measured as a distance, going round the ring, from the start of
the oldest frame not released. In that measure the frames of `log` lie one
behind the other without gaps, each as long as `Size` says, the frame coming in
lies behind the last, and ERXRDPT limits the total to less than the ring. A byte about
to be stored is therefore at a distance none of the unreleased frames covers,
and since distances below RXSIZE name different addresses, it is at another
address. The other parts of `IInv` tie the handler's pointers to that picture:
at each `pc`, which frame `rxrdpt`, `ERDPT` and `plen` belong to, and how much
of it is in `buf`. `FrameIsWhole` then follows where copying ends,
`ServedInOrder` from `taken` and `served` moving together. A frame is dropped only while
another waits, because with none unreleased any one frame fits.

`ReceiveImplementsFifo` maps `accepted` to the number of frames committed and
`served` to itself; `Commit` is `Accept`, `Filter` is `Serve`, the other
actions stutter. It needs `~BadFrames` because an invalid frame is really
not served: the buffer still holds something else. `WakeupNotLost` needs
`~EarlyFrames`, by finding 1.

`TxPathProofs`, for any number of calls and of failures:

| Theorem | Statement |
|---|---|
| `TxInvariance` | `Spec => []IInv` |
| `WireIsInOrder` | `Spec => []WireInOrder` |
| `NoFrameSkipped` | `Spec => []NothingSkipped` |
| `FrameIsUndisturbed` | `Spec => FrameUndisturbed` |

`WireInOrder` is not inductive: a transmission appends what the buffer holds.
`IInv` says which frame that is at each step of the function (`BufferInv`), that
nothing is under way while the buffer is written (`QuietInv`), and that the
buffer's frame, as long as it can still go out, is younger than everything on
the wire (`WireInv`). `CompleteInv` counts the wire as long as nothing failed.

`SpiBusProofs`, for any number of frames sent and received, if the handler is
kept out while main loads a frame (`HeldOff`; without that *spi_command* refutes
the first, and the others fail with it):

| Theorem | Statement |
|---|---|
| `BusInvariant` | `Spec => []IInv` |
| `BytesAligned` | `Spec => []Aligned` |
| `BankIsRemembered` | `Spec => []BankRemembered` |
| `FramesNotForgotten` | `Spec => []NoFrameForgotten` |
| `FramesSentWhole` | `Spec => FrameSentWhole` |
| `FramesUndisturbed` | `Spec => FrameUndisturbed` |

Nothing in the chip says who is talking to it. `IInv` says it: one context at
most has a call under way (`ApartInv`: the handler when an edge called it, and
then main waits where it is `Interruptible`; main otherwise), and for that
context, at each byte of its call, whether the
chip is selected and in which command (`ChipInv`), which bank it is in against
the remembered one (`BankInv`), what has been loaded (`LoadInv`), that TXRTS was
seen clear and is clear still (`QuietInv`), and what was seen of EPKTCNT and is
still so, or has left an edge (`CountInv`). The proofs show where the design
depends on the assumption: in `ApartInv` alone.

`ServerProofs` begins with the parsers of `Commands`, for every password without
a slash, every scan length and every content of the buffer:

| Theorem | Statement |
|---|---|
| `UrlReadAsDocumented` | every path is read as the comment of `analyse_get_url` says |
| `DatagramReadInside` | for payloads of every length a command comes from behind the first comma of the payload, and none is missed if the length fits its byte |

Both scans stop at a least position with some property. The lemmas show that
such a least position exists and is the one the code finds, and then compare it
with the first `/` of the path, or the first comma of the datagram. The
existence of a least element comes from the library's theorem about
well-founded orders on the naturals.

It goes on to the handler, for every set of received frames that `ServerAssumption` admits
(they have the fields, and a length that fits the buffer, which `RxRingProofs`
shows of frames handed over):

| Theorem | Statement |
|---|---|
| `AnswersSafe` | `Spec => []Safe`, the conjunction of the next three and `ShortAnswers` |
| `AnswersGoBack` | `Spec => []GoesBack`: the addresses of every answer, the ports of those of TCP |
| `AnswerLengthsAgree` | `Spec => []LengthsAgree` |
| `PagesTellLed` | `Spec => []PageTellsLed` |
| `RepliesTellLed` | `Spec => []ReplyTellsLed`: but for `t=` with an unknown value |
| `UrlsReadAsDocumented` | `Spec => []UrlAsDocumented` |
| `DatagramCommandsInside` | `WholeDatagrams` implies `Spec => []DatagramCommandIsInPayload` |
| `LedFollowsCommands` | `WholeDatagrams` implies `Spec => LedFollowsCommand` |

These need no strengthening: whatever the state, one frame handled leaves
answers that are right, because every answer is made from the frame and the
state the handler has just set. The work is in following each builder through
the fields it sets and leaves. `ShortAnswers` says that an answer has at most 579
bytes or the length of a frame that was received; `BoardProofs` needs it.
`WholeDatagrams` says that a UDP length counts its header, that is 8 bytes at
least; below that `payloadlen` wraps to a large value and the code may find a
command behind the payload. Above, up to any length, the kept length is at most
the payload's.

`ConfigProofs` and `BoardProofs`, for every station address and any number of
restarts:

| Theorem | Statement |
|---|---|
| `AccessesArrive` | `Config`'s `Spec => WritesArrive` |
| `SetUpCompleteWhenReceiving` | `Config`'s `Spec => []ReadyWhenReceiving` |
| `PhyAndMacAgree` | `Config`'s `Spec => []DuplexAgrees` |
| `BoardIsServer`, `BoardIsSetUp` | the program implements `Server` and `Config` |
| `BoardAnswersSafe`, `BoardLedFollowsCommands`, `BoardAccessesArrive`, `BoardSetUpComplete`, `BoardDuplexAgrees` | what was proved of the parts holds of the program |
| `AnswersFit` | `FramesReceivedFit` implies `BoardSpec => []AnswersFitController` |

The station address is six bytes, the only assumption of the first group.
`WritesArrive` needs the invariant `BankAgrees`: behind the reset and the sleep
the controller listens and its bank is the remembered one; before the sleep is
over its bank is 0, which is what the sleep sets the remembered bank to. It
rests on the shape of `Program`: reset and sleep come first and nowhere else,
every other access names a register of the map, and registers at common
addresses count as bank 0.

`ReadyWhenReceiving` and `DuplexAgrees` speak of the registers at the end of the
set-up only; `SetUpInv` carries them there. `Held(n)` says that of the first n
accesses every write that none of them repeated is still in its register, and
`PhyHeld(n)` the same of the PHY, whose writes take effect when the controller
gets to them: while one is under way the driver is at the wait behind it
(`busy => pc \in PhyWaits`), which is what `enc28j60_write_phy` waits for. A
restart finds a controller that goes on receiving with a whole set-up until the
reset. What is left at the end is arithmetic: which bits the values have, and that
the checksum of the pattern filter is the one of the ARP frame it selects.

`AnswersFit` joins the two modules: while the handler answers, the limit in
MAMXFL is what `Config` set, and `ShortAnswers` bounds the answer by a received
frame. `FramesReceivedFit` says that with its CRC no
received frame is longer than that limit; the controller drops longer ones,
because `enc28j60_init` leaves HFRMEN of MACON3 clear. `MCBoard`'s longest frame, a
ping of 1496 bytes, reaches it.

`TcpSessionProofs`, for every byte size above 2, all lengths of pages and
requests below `Word - Byte`, any number of connections, losses and repetitions,
any order of segments:

| Theorem | Statement |
|---|---|
| `CarriesThrough` | the loop of `make_tcphead` adds modulo the number space |
| `SessionInvariant` | `Spec => []SessionInv` |
| `SessionTypeOK` | `Spec => []TypeOK` |
| `NeverAcknowledgesMore` | `Spec => []AcknowledgesWhatWasSent` |
| `LongPagesMistaken` | `FewSyns` implies `Spec => []OnlyLongPagesMistaken` |
| `PageOfThisConnection` | `FewSyns` and `ShortPages` imply `Spec => []PageIsForThisConnection` |
| `SessionImplementsLamp` | these and order towards the server imply `Spec => LampSpec` |

"No acknowledgement under way is beyond what the client sent" is not inductive:
the next one is made from a segment under way to the server. `SessionInv` says
of each of those, and of all the client may still repeat, that what would
acknowledge it is a number the client has reached. `CarriesThrough` is needed
because the server adds byte by byte, with its carry in 16 bits, and the client
modulo the number space; it is arithmetic over a symbolic byte size, carry by
carry.

"A client takes no other connection's page" needs to know where the numbers of
old segments are. `NumbersInv` says that every page under way, every request
under way and the session itself begin at `<<0, 0, b, 1>>` for a `b` that `seqnum`
had for a SYN-ACK made since the network was last empty (`Recent`), that a number
belongs to one connection, and that no SYN-ACK still under way offers it again. As
there are fewer than half as many SYNs as `seqnum` has values, two such numbers
are at least two steps of the third byte apart (`RecentApart`): a page either has
the client's number, and is its own, or is longer than two steps.

- `FewSyns` (`2 * MaxSyns < Byte`): no more than 127 SYNs while a segment of the
  first is still under way. It is what TCP assumes of every sequence number, that
  it does not come round within the life of a segment, for the 128 numbers this
  server has.
- `ShortPages`: no page is longer than 512 bytes, the claim of the comment at
  ip_arp_udp_tcp.c:259. The page for a LED that is off meets it, with 499 bytes;
  the one for a LED that is on, with 525, does not, and that is finding 6. What
  holds of the program as it is is `LongPagesMistaken`, which does without: its
  invariant, `OnlyLongPagesMistaken`, is stated in `TcpSessionProofs`.

The refinement to `RemoteLamp` adds `LampInv`: the requests under way to the
server are in the order of their connections; those of this connection ask for
the state it asks for, and earlier ones for the state the LED already has; a page
of this connection under way, or lost, or taken, means that its request was
carried out. A step of the server is then `Apply` or a stutter, taking the page is
`Answer`, giving up is `Abandon`. It needs order towards the server
(`"board" \notin Reorder`), for the reason given under the findings.

`ChecksumsProofs`, for every byte size above 2, every content of headers,
options and payloads, every length for which a segment's length fits its field:

| Theorem | Statement |
|---|---|
| `SentAccepted` | `Spec => []SentVerifies` |
| `PongAccepted` | `Spec => []PongVerifiesUnlessCarry` |
| `SameChecksum` | `Spec => []RoutinesAgree` |

The sums are recursive functions. The library's induction theorems take the
property as an operator, which the provers cannot instantiate; the proofs use
induction over a set instead (`Induction`: a set of naturals that contains a number
whenever it contains all smaller ones is all of them), and from it the existence
and the uniqueness of a function defined step by step (`Recursion`). On that rest
the lemmas: folding keeps the remainder modulo `Mod - 1` and zero apart from the
rest; adding the carry after each byte, as `compute_sum` does, and once in the end,
as `checksum` does, give the same word; storing a word adds it to the sum. The
inductive invariant adds what a block is before it is completed (`Prepared`): long
enough for its header, with its checksum field zero where the builder does not
clear it, and, for a pong, the accepted checksum of the ping.

**Only model-checked.** Liveness: `EveryFrameTaken`, `SendReturns`, `MainParks`,
`AllTaken`, `ComesUp`, `ServedUnlessPageLost`, `FallsSilent`. It rests on fairness
and so on ENABLED, which the prover does not have. Every invariant, action
property and refinement of the passing runs is proved.

## What is not modelled, and why

- Code nothing calls: `enc28j60_read_phy`, `enc28j60getrev`,
  `enc28j60_interrupt_enable` and the others named under the inventory.
- The text of pages, byte by byte: a page is its kind and length. The strings
  of the server are constants; their lengths were counted in the source.
- A GET request split over several segments, UDP lengths below 8 in a run:
  hazards of `PROJECT.json` with the reason.
- The frames main sends before it parks are modelled by what they do to the bus
  (`SpiBus`) and by their checksums (`Checksums`), not field by field.
- The errata about odd values of ERXRDPT (the driver writes even ones): their
  effect is not documented well enough to model.
- GPIO, LEDs, console, board id, build files: input and output only.
