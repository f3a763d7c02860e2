# Verification of the onion messenger

The repository is a messenger for a local network. A server keeps a directory
of who is logged in where; messengers find each other through it and pass
texts along a route of relays, wrapped in one layer of GPG encryption per hop.
This directory holds TLA+ models of the program, TLC configurations that check
them on small instances, and theorems with proofs that TLAPS checks.

All paths below are relative to the repository's `src/` directory.

## The system

| Part | Source | State | Operations |
| --- | --- | --- | --- |
| User directory | `server/node_manage.cc` | `node_list`, a sequence of (github_id, ip_addr) | add_user, delete_user, get_binary |
| REST server | `server/rest_server.cc` | the directory above | GET, POST, DELETE of `/users`, one connection at a time |
| REST client, HTTP | `server/rest_client.cc`, `common/http_client.cc` | none | get_nodes, add_node, delete_node |
| Broadcast listener | `server/broadcast_server.cc` | the advertisement being served | receive, POST, GET, send the list back |
| Health server | `server/health_server.cc` | its copy of the list, the index in it | sweep: connect, ping, wait for the answer, delete |
| Server main | `server/main.cc` | three child processes | fork each, wait for the first that ends |
| Client listener | `client/listen.cc`, `common/tcp_server.cc` | `node_list` of the messenger | LIST, PING, message file |
| Advertiser | `client/udp_client.cc`, `client/main.cc` | none | a UDP broadcast every five seconds |
| Sender | `client/messanger.cc`, `common/util.cc` | locals of send_message | choose a path, encrypt per hop, send |
| GPG wrapper | `client/gpg_wrapper.cc` | name, passphrase; keyring outside | encrypt_file, decrypt_file, verify |
| Message codec | `client/message_wrapper.cc` | fields of a message | serialize, deserialize |
| TCP framing | `common/tcp_client.cc` | a descriptor | connect, send, send_file, recv, close |
| Session | `client/messanger.cc`, `client/main.cc` | authed, name | log in, start the threads |
| User interface | `client/ui.cc` | chat map, current window | login, list of users, chat |

How they interact. The three server processes share nothing but the REST
interface of the first, on the loopback address. A messenger is known to the
server by its UDP advertisement; the broadcast listener registers it and opens
a TCP connection to it with the whole list. The health server opens a TCP
connection to every registered user and expects a hash of the id and a fresh
key. Messengers open TCP connections to each other with message files. In a
messenger, the UI thread, the listener thread and the advertiser thread share
the list, the chat map and the descriptors, with no lock anywhere.

What is hard here, and what correctness means for each part:

- *Directory*: an id has one address. Users are deleted by id, from a copy of
  the list taken before the checks, while others register. Who is deleted must
  be who failed the check; who is gone must leave; who stays must be listed,
  at its present address, although an address is never updated.
- *Health check*: timeouts, late answers, an address taken over by another
  user, several health servers. An answer must settle the check it was sent
  for and no other.
- *Lists*: each list is a copy of the directory at an earlier moment. In the
  end a messenger must hold the directory.
- *Onion*: only the recipient may see the text; no relay may link sender and
  recipient; a message must arrive once when nothing is in the way, and go
  round for ever in no case. A missing key, a stale address, a list replaced
  between two look-ups, a relay that dies are the interesting cases.
- *Threads of a messenger*: descriptors closed twice, the shared maps, the
  session flag set before the name, a window that one thread draws in while the
  other clears or deletes it. What is on the screen must be the end of the log of
  the room that is open.
- *Frames*: no read or write is checked for its length. A frame cut short must be
  taken for nothing, never for a shorter list or another text.
- *REST*: one process serves one connection at a time. Each request must take
  effect at one moment, and a caller or the process that ends must leave nobody
  waiting.
- *Processes of the server*: a child whose service returns goes on in main, and the
  program may be started while an earlier start runs.

`PROJECT.json` lists the hazards with the lines where they bite, and the
properties that would catch them going wrong. Some are modelled and caught by no
property, because what goes wrong is what the code does and a property can only
excuse it: there the note says which property does.

## The modules

`NodeManage`: the methods of class NodeManage as operators on the sequence of
nodes. `Directory`: the abstract specification of the server's directory:
register while the id is free, suspect one registered entry, expel exactly it.

`Client`: the machines the server deals with. Per address at most one
messenger process (`user`, `phase`), the accept queue of its listener
(`inbox`), its list (`nodes`); the advertisements under way (`adverts`) and the
connections the server's processes have open (`link`). A frame joins the queue
when it is complete, since the listener serves one connection at a time and
does nothing but wait for the rest of an incomplete one. The answer to a check
is a hash of the listener's id and the check's key; it is modelled as who
answered which check. A message the user sends, and thus the descriptor a
thread may lose to the other (below), is not part of this module, and neither is a
listener that hangs in a frame cut by another messenger, as in `Onion`:
LiveIsListed and ListsConverge are about messengers whose listener does not.

`Server` extends it with the three processes. A REST request is one step of
the process that sends it, because the REST process serves one connection at a
time and its client waits; `Rest` below shows what this rests on.
Everything else is cut where another process can
come between:

| Action | Code |
| --- | --- |
| BRecv, BPost, BGet, BConnect, BSend, BSendFails | `server/broadcast_server.cc` 78-103 and 19-38 |
| HGet, HConnect, HSend, HSendFails | `server/health_server.cc` 20-49 |
| HPongOK, HPongFails, HPongCut | `server/health_server.cc` 51-81, `common/tcp_client.cc` 137-186 |
| HExpel, NextNode | `server/health_server.cc` 84-90 |
| Start, Listen, Advertise, Stop | `client/main.cc`, `client/udp_client.cc` |
| ListenerList, ListenerPing, ListenerPingCut, ListenerLate | `client/listen.cc` 42-81 |

A write to a socket that never connected, or whose peer has gone, raises
SIGPIPE, which the code does not handle: that process is then `dead`. recv does
not stop at the end of a stream: a health server whose answer is cut is `stuck`.

`Onion` is the way of a message. A packet is the list of its layers, outermost
first; a layer is the plain header (from, to) of a file and the key its body is
encrypted for. send_message is Compose (path and text), one Encapsulate per
round of its loop, Transmit (connect, type and size), FinishUI (the payload, close),
DestroyUI; the listener is Discard, Forward (up to the size), FinishListener, Show,
ReceiveNothing, DestroyListener; NewList replaces the list; Stop and Restart
are the process. Four facts of the code shape it:

1. The first round of the loop encrypts for the recipient with a header from
   the recipient to itself (`client/messanger.cc` 103-110): the recipient
   receives the packet, forwards it to itself and only then shows it. It needs
   its own entry on its own list for that.
2. The result of encrypt_file is ignored. Without a key, the layer's body is
   the ciphertext of the round before; in the first round there is none and the
   path of the file is empty to the end. An empty path is announced with a size
   of 2^64-1: the sender then writes nothing for ever, and the receiver waits
   for ever.
3. A TCP_Client closes its descriptor in close() and again in its destructor
   (`common/tcp_client.cc` 33-35, 188-194). Between the two, the other thread
   may have been given the number. What it then has open is closed: the connection
   it is reading from or sends on, or the file it reads. A loop that reads a closed
   file never ends (`common/tcp_client.cc` 116-131, `client/message_wrapper.cc`,
   while(!is.eof())), nor does one of recv at the end of a stream.
4. Type, size and payload of a file are three writes or more (`common/tcp_client.cc`
   96-131). `half` has the frames of which the size is written and not yet all of the
   payload; a listener serves such a frame only when it is whole. When its sender
   is killed in between, or loses the socket or the file to fact 3, the frame is cut
   (Cut, Tear): it becomes one that never comes, whose receiver reads 0 bytes for ever
   (162-177). A frame that is cut before its size is nothing: recv takes the size for 0.

`torn` remembers who cut a frame or closed a file or a socket in use, for
HangsForAReason only. Left out of Onion: a number that is given out a third time
between the two closes; a send that blocks because the receiver's socket buffer is
full; what a thread that has lost its file might yet send.

`Session` is one messenger process from its start, with the rest of the world
reduced to the lists the server sends. Its threads and their places in the code:

| Thread | Actions | Code |
| --- | --- | --- |
| UI | Verify, Toggle, SetName, SetPassphrase | login, `client/messanger.cc` |
| UI | WaitForList, UpdateUserlist, SelectUser, Quit, LeaveChat | `client/ui.cc` |
| UI | Find, GeneratePath, FirstHop | send_message, `client/messanger.cc` |
| main | Poll, Check, StartListener, StartAdvertiser, Kill | `client/main.cc`, is_authorized |
| listener | Listen, Receive, Insert, Relay | `client/listen.cc` |

`authed` is set before name and passphrase, each in a step of its own, and main
looks at the flag and at the other two in two steps: it can find a user logged
in who has no name yet, and then starts nothing. It starts nothing either for the
user of a key without a passphrase who gives none: verify_passphrase accepts the
login, is_authorized does not. `list` is the map the threads
share. Receive clears it and takes the new list into `todo`; each Insert moves
one entry, and leaves an id alone that is on the map already, as map::insert
does. Relay and FirstHop use operator[], which inserts an empty address
(`NoAddr`) for an id that is not there. Crash is the undefined behaviour of a
map read or changed while the other thread changes it: the process may die.
The other outcome that is modelled is that the operation sees the map between
two insertions. `Onion`, in contrast, replaces a list in one step, since it has
several messengers to follow.

`Session` also has GpgEnds: the thread that waits for a gpg calls exit when gpg, or
the fork, fails in another way than by status 2 (`client/gpg_wrapper.cc` 17-36).

`Chat` is the rooms of the user interface (`client/ui.cc` 158-290). `chat` is the
map of logs, `screen` the rows of the window of the open room, `job` where each
thread is in push_message, refresh_chatlog or chat_room, with its locals.

| Thread | Actions | Code |
| --- | --- | --- |
| both | Push, CheckRoom, CopyLog, TurnPage, PrintLine | push_message, refresh_chatlog |
| UI | OpenRoom, SetCurrent, Say, ClearWindow, ClearLog, Leave, CloseRoom, DeleteWindows | chat_room |
| listener | Receive | `client/listen.cc` 126-132 |

A call of ncurses is a step, although ncurses is not made for threads; nothing in
the code makes it one. What is undefined in the shared map and the window (two
threads in one vector, a window deleted under the pen) may end the process (Crash),
lose the line, or happen in some order. F2 shows "send" with a file name and sends
nothing (`client/ui.cc` 217); in the model it is a Say like Enter.

`ServerMain` is the processes of the server program. A process is known by its
start and the forks that led to it; Skip, Fork, ForkFails and MainEnds are main,
RunService is the beginning of a service, which finds its port free or not.
rest_server returns from a taken port, and its process goes on in main behind its
fork: it forks a broadcast listener and a health server of its own. It does the same
after any other error of bind or listen (RestFails, `server/rest_server.cc` 33-46).
boradcast_listener ends its process, and health_server needs no port.

`Rest` is a request on its way from a caller to the REST process: Refused, Connect,
Send, Breaks on one side (`common/http_client.cc`, `server/rest_client.cc`), Listen,
Accept, Handle, HandleNothing, Reply on the other (`server/rest_server.cc`). Either
may end at any step. libcurl sends a request of this size in one write, so that a
connection carries a whole request or none; getline on a connection without a
request finds its end, and the answer is 400. `AtomicRest` is the abstract
interface: a call takes effect at one moment between its beginning and its end, or
not at all. The effect of a caller that has ended may come later, which is why it
has orphans. The length of an answer is in a header with a misspelt name
(`server/rest_server.cc` 91), so libcurl reads to the end of the connection, and a
list cut short by the end of the REST process is a success with fewer entries: both
modules say so, the abstract one only once the server has gone.

`Codec` is the bytes: the lengths, the markers, what serialize writes and what
deserialize makes of a file that may be cut. A length has Width digits of base Base
instead of eight bytes; the time has one byte instead of eight. What an unchecked
read leaves in memory is modelled (Overlay): a length that is not all there mixes
with the one read before. A message of type 2 (a named file) is left out, and so are
names longer than the 1025 bytes deserialize has for them.

`Transfer` is one frame over one connection: Write, Finish, Stop, Close are send,
send_file and whatever ends the stream, ReadType, ReadSize, ReadBody, Return are
recv. The stream may be cut after any byte, with an end or an error, and a read gets
any part of what has arrived; the health server's sockets also time out. `Understood`
is what the receiver makes of the bytes (`client/listen.cc` 47-111,
`server/health_server.cc` 70-79), `Meaning` what the sender meant. Which frames there
are is a constant, and FrameAssumption says what the program's have in common: a frame
is its markers round a content with no postfix in it, or a Layer as send_message makes
it, or the file that is not there.

The other modules use frames that are whole, or cut. Transfer shows what a cut one
is. If the stream is at its end before the size has come, recv returns at once with
nothing. If it ends after the size, recv reads 0 bytes for ever and does not return:
the listener that hangs in Onion, and the answer to a check that leaves the health
server `stuck` in Server. If the read fails (a reset, a timeout of the health server),
recv returns what has come, which its caller takes for nothing (NothingFalse; `broken`
and `partial` in Client and Server), with one exception. A file cut between the length
of its first name and the end of that name ends the receiving process: the second
length is read over the first and swapped, and the string cannot be resized to that
(`client/message_wrapper.cc` 146-148). In Onion this is one of the ways of Stop.

## The runs

All runs allow deadlock: the system may stop, because the number of messengers
started, stopped, and of messages sent, is bounded and processes may die.

| Run | Configuration | What it shows |
| --- | --- | --- |
| server_safety | `MCServer.cfg` | TypeOK, OneAddressPerId, SweepSound, and that Server implements Directory |
| two_health_servers | `MCServerTwoHealth.cfg` | AnswersThisCheck, LeavesByFailedCheck |
| user_moves | `MCServerMoves.cfg` | StaleLeaves, LiveIsListed |
| address_reuse | `MCServerReuse.cfg` | ListsConverge |
| onion_safety | `MCOnion.cfg` | TypeOK, OnlyTheRecipient, Unlinkable, AtMostOnce, Chained |
| onion_drains | `MCOnionDrains.cfg` | HangsForAReason, Drains |
| onion_delivery | `MCOnionDelivery.cfg` | Delivered |
| session | `MCSession.cfg` | TypeOK, ThreadsHaveName, LatestOnly, Ends, WaitsForAReason, PhantomsPass |
| chat | `MCChat.cfg` | TypeOK, ReadAll, LastLinesShown, OwnLinesOnly, Seen |
| server_main | `MCServerMain.cfg` | TypeOK, SweepersBounded, TakenPortEndsMain, AllServed |
| rest | `MCRest.cfg` | TypeOK, Answered, and that Rest implements AtomicRest |
| transfer | `MCTransfer.cfg` | TypeOK, NothingFalse, WholeWhenClean, UnderstoodWhenClean, Returns |

What the newer runs found about the code, beyond the properties that hold:

- LastLinesShown needs `overlap`: two refreshes at a time both draw from the top, and
  one that turns the page clears what the other has drawn. ReadAll needs no such
  exception, since a log that fits turns no page. Both need `torn`: F5 clears the
  window and then the log, and a push in between is cleared but stays on the screen,
  and a refresh of a room left in the middle of it draws in the next one.
- A server started n times has up to 2n - 1 health servers (SweepersBounded): each
  later start adds its own and that of its REST child. If a REST server has failed to
  bind for another reason than a taken port, it is 2n. The run two_health_servers is
  thus what a second start leads to.
- A listener may hang for ever with every key present (HangsForAReason names the
  reasons): it is enough that the messenger before it on the path ends, or destroys a
  TCP_Client, between the size and the last byte of a file.
- A start that finds the REST port taken ends, if later: one of its two broadcast
  listeners has no port, and its main returns (TakenPortEndsMain). Its other processes
  stay.

Bounds of the server runs. Two users and two addresses: enough for a user that
moves, for two users that take turns on one address, for a sweep with a node
behind the one that is checked, and for a deletion between two checks. Two
starts (`MaxStarts`): the second is the user who comes back, moves or takes an
address over. A queue of one connection (two with two health servers) and a
socket buffer of one advertisement (`Backlog`, `UdpBuffer`): both limits are
reached. Runs that check safety only use symmetry of users and addresses, or of
users and health servers; runs with liveness use none. The liveness runs have
one user on two addresses, and two users on one, which are the two ways an
entry becomes stale.

Bounds of the onion runs. Four users, so that there are two relays and two
orders of them; two messages, the second of which starts where the first ends
up, so that a messenger is relay, recipient and sender at once. `MaxRelays` is
2 instead of 3: with two, the first relay and the last are different, which is
what Unlinkable needs. One messenger may die and come back (`MaxStops`), one
may receive a new list (`MaxLists`); in the delivery run, which assumes that
the lists agree throughout, neither happens. The lists are, by run: the whole
directory and one in which an address now belongs to another user, and one
that lets two users write without relays; one without the sender, one without
the recipient and one without relays. The keyrings are complete, or lack the key of a
relay for one user and of the recipient for another. The accept queue is not
bounded: with two messages it holds two packets, the code's holds ten.

Bounds of the session run. Three users, of whom one logs in, and three lists:
she is alone; with a second; with him at another address and a third. The
lists differ in who is listed and in where, so an entry of an older list, of a
half-filled map or an empty address can be told from one of the latest. Lists
come in any order and without end; nothing is counted, so the run covers every
behaviour for these lists.

Bounds of the chat run. Two rooms, of which each may be the one that is open, left
and opened anew (`MaxRooms` 2); three lines, said by either thread in either room, one
of two rows, in a window of three: a log that fits, one that just fails to and one
that turns the page. The code's window has 20 rows of 40 columns; only whether the
next line fits matters.

Bounds of the server_main run. Two starts, each of the whole program or one service
(`MaxStarts`), and two services that die or forks that fail (`MaxDeaths`).

Bounds of the rest run. Two callers, as in the program (the broadcast listener and the
health server), three ids of which one is not valid, one address. Calls are not
counted. The directory holds two entries at most, so that an answer can be cut to one
or none.

Bounds of the transfer run. Base 8 and two digits for a length, blocks of four bytes.
What matters of the program's sizes is kept: a check (36 bytes) and an answer (44) are
shorter than Base and have one digit, a list or a message may have two, so that a size
read in two parts is smaller than the true one; names are shorter than Base; a text
(200 bytes at most) is shorter than the block deserialize reads (1024), so that it is
never cut at a block, and may hold a NUL, which the key Ctrl-@ enters. The contents
hold no marker, as in the program, where they are letters, digits and addresses.

Fairness. In the server runs: the processes take their steps (weak fairness), a
messenger advertises again and again (strong fairness of Advertise: the loop repeats
every five seconds, and nothing else than the server's socket drains the buffer), and
the network is a fair lossy link (FairLink): an advertisement that is under way again
and again while the broadcast listener lives is received again and again. Weak or strong
fairness of BRecv would not say so: the datagram may be lost each time before the
listener is back at recvfrom. In the chat, server_main and rest runs: threads and
processes take their steps; nobody is obliged to write, to start the program or to
call. In server_main fairness of the step of some process is enough, because no process
takes steps for ever. In the transfer run: the sender and the receiver take their
steps, and nothing obliges a connection to be closed. In the onion runs: the UI thread and the listener thread of
a messenger take their steps. In the session run: the threads take their steps,
and the listener receives one list after another (weak fairness); strong
fairness of WaitForList while somebody else is listed, and of an UpdateUserlist
that finds somebody, because the UI looks once a second, lists come every five
seconds and refilling the map takes an instant, so that it does not find the
map half filled every time. Nothing obliges a user to log in, to send or to
leave, a datagram to be lost, or a process to die. The sleeps of five seconds
and of three minutes, and the timeout of three, are not measured: the timeout
of a check may win at any moment.

What the liveness properties leave out, on purpose, is what the code does not
guarantee: StaleLeaves and LiveIsListed excuse a health server that a dying
peer has killed or stuck; LiveIsListed and ListsConverge a dead broadcast
listener; ListsConverge the empty directory, which is never sent. Delivered
assumes that everybody is up, that no listener hangs, that the lists agree on
whoever they name but the sender, that the sender has every key, and that no
thread destroys a TCP_Client while the other thread of the messenger is at
work. Each of these was needed: without it TLC finds the message lost. Drains
excuses the queue behind a listener that hangs.

Every property has a mutant in `PROJECT.json`: an operator of the module that
changes the code's the way a slip would (a deletion that misses the first
index, an address brought up to date, a list merged instead of replaced, a
relay too few, a packet forwarded unpeeled), under which TLC finds the property
violated.

## The proofs

`NodeManageProofs`: what find_idx returns, of any list the first match
(`FirstMatch`, from the least number of a set of places, which the library has
through the well-foundedness of <); that add_user keeps ids unique and adds at
most one entry, exactly when the id is free; that delete_user removes the first
entry of that id and no other from any list (`DeletesFirst`), and with it all
entries of that id when the list has no duplicates.

`ServerProofs`, for every set of users, addresses and health servers and every
bound:

- TypeCorrect: `Spec => [](TypeOK /\ UniqueInv)`. UniqueInv is the
  strengthening: the directory and every copy a health server sweeps have an id
  at most once. It is needed because delete_user removes the first match only.
- SweepIsSound: `Spec => []SweepSound`, for at most one health server
  (OneHealth). Inductive together with TypeOK and UniqueInv: between two steps
  of the health server only the broadcast listener changes the directory, and it
  only adds; when the health server deletes the id it checks, the nodes it has
  yet to check have other ids.
- LeavesOnlyByFailedCheck: `Spec => LeavesByFailedCheck`, for any number of
  health servers.
- ImplementsDirectory: `Spec => DirSpec`, for at most one health server. The
  mapping takes the set of entries as the directory and the node under
  expulsion as the suspect. Every step maps to Register, Suspect, Expel or a
  stutter; SweepSound is what makes the suspect a registered entry.
- OneAddressEverywhere: `Spec => []OneAddressPerId`, for any number of health servers.
  Inductive with CopiesInv, which says of each copy on its own (the list about to be
  sent, the messengers' own, those in the queues) that it has one address per id:
  every copy is made of another one, and the first of them of the directory, of
  which UniqueInv says so.
- AnswersTheCheck: `Spec => []AnswersThisCheck`, for any number of health servers.
  CheckInv says where a connection may be: open only while its health server is about
  to send, used only while it waits or deletes, and always to the address being
  checked; and a check in a queue is that of such a connection. AnswersThisCheck by
  itself says nothing of a connection that is open before its check is sent.

`SessionProofs`, for every set of users, addresses and lists:

- TypeCorrect: `Spec => []TypeOK`.
- ThreadsAreNamed: `Spec => []ThreadsHaveName`. The strengthening LoginInv says
  for every place of main and of the UI thread what has been set by then; main
  goes past Check only with a name and a passphrase, which only a valid login
  sets, although the flag it polls is set by any.
- NothingOlder: `Spec => []LatestOnly`. The strengthening ListInv adds that
  what is yet to be inserted is part of the latest list, and that everybody of
  that list is on the map or yet to be inserted, at every step of the refill.

`RestProofs`, for any callers, ids and addresses:

- RestTypeCorrect: `Spec => [](TypeOK /\ CallInv)`. CallInv ties the server's side of
  a connection to its caller: who is queued, served or answered has called and not
  returned. Without it a call that begins might find its caller in the queue already,
  and TypeOK, which says that the queue holds nobody twice, is not inductive.
- ImplementsAtomic: `Spec => AtomicSpec`, step by step: Handle and HandleNothing are
  the moment a call takes effect, a caller that ends while its request is under way
  leaves an orphan whose effect may still come, and every other step is a stutter or
  the beginning or end of a call.

`OnionProofs`, for any users, addresses, keyrings, lists, messages and number of
relays (the longest of the proofs, since every step of the relay is one of packets of
any length):

- OnionTypeCorrect: `Spec => []TypeOK`.
- OnlyForTheRecipient, NoRelayKnows, LeadsToTheRecipient: `Spec => []OnlyTheRecipient`,
  `[]Unlinkable`, `[]Chained`. They share the invariant PacketInv: every packet that
  waits Travels, every packet in the making is MadeOf what send_message has left to
  do. A packet that travels is sealed innermost for its recipient; if its sender has
  all keys, each layer is from the one before; and if its list had two others, no
  layer but the first names the sender, and where the first does and is for a relay,
  the second is not for the recipient. To keep this while the packet is made, Mixed
  says that the hops still to come are none of those the layers are for. Unlinkable
  as it stands says nothing of packets on their way, and is not inductive.
- OnlyForAReason: `Spec => []HangsForAReason`. HangInv has a half for each thread. A UI
  whose messenger is not in `torn`, and which had its recipients' keys, has a file in
  every round of its loop (UIReason; of one that lacks a key only the first round, for
  the recipient, can leave none: RoundMade). While all are such, no queue holds a
  frame that never comes, and nobody waits in one (ListenerReason). HangsForAReason as
  it stands says nothing of queues or files, and is not inductive. The lemmas Stopped,
  DestroyedUI and DestroyedListener say what a cut does to queues and threads; the
  other invariants need only that it puts nothing new into a queue (Blanks).
- NeverTwice: `Spec => []AtMostOnce`. Once says it without counting: of the places
  of a message (being made, in a queue, on the screen) no two have it. The cardinalities
  follow; the places of a queue are bounded because each has another message.

Proving NoRelayKnows corrected the model. A messenger that has restarted has an empty
list, and forwarding to an id that is not listed puts the id there without an address
(`client/listen.cc` 116). A message written then may find one or no other on the list,
so that Unlinkable cannot rest on what lists the server sends. `thin` notes the
messages whose path was made of such a list, and Unlinkable speaks of the others.

`ChatProofs`, for any rooms, any lines of any height and a window of any size:

- ChatTypeCorrect: `Spec => []TypeOK`.
- EveryLineInItsRoom: `Spec => []OwnLinesOnly`. ChatInv adds that every line of a log
  and every line about to be drawn was said in that room, that the UI thread is in the
  room it has opened wherever it draws, and that the listener draws in the window of
  another room only if `torn` says so.
- LogThatFitsIsRead, EndOfTheLogIsShown: `Spec => []ReadAll`, `[]LastLinesShown`. They
  share ScreenInv. Of a log that fits (ReadInv), each row on the screen is where the
  layout has it, and each row missing is one that a thread will draw or refresh; of a
  longer one (LastInv), a thread that has yet to draw draws the page up to a row from
  where whatever was added since is drawn after it. Both say what the state is between
  two steps of a push, where the properties say nothing, and each thread is told by
  what the other still has to do. The layout itself (FlattenSeq, the rows of a log) is
  reasoned about by induction over sets, which the library's theorem on well-founded
  relations allows: LayoutAppend, LayoutGrows and LayoutPrefix say that adding a line
  moves no row.

`ServerMainProofs`, for any number of starts and deaths:

- ServerMainTypeCorrect: `Spec => []TypeOK`; FewSweepers: `Spec => []SweepersBounded`.
  Both follow from MainInv. Shape lists the six processes a start may have and where
  each can be; Ahead says that a fork that is still to come has not been; Winner, that
  if any REST child has returned to main, one got the port, and forks nothing, unless
  one could not bind at all (`unbound`). So without that there is a start whose REST
  child has no health server, and numbering the others is an injection into 1 .. 2n - 1.

`TransferProofs`, for any base and number of digits and frames of any size. TLC also
found Reading and Heard, below, to be invariants on the frames of `transfer`:

- ValueOfDigits: a length written digit by digit and read back is that length. Digits
  divides by the powers of Base, Value folds from the left; after k digits the fold has
  the length divided by what is left, which is an induction over k. Power is a recursive
  function for this, since the prover knows nothing of `^`.
- TransferTypeCorrect: `Spec => []TypeOK`. Reading adds that before the size is read no
  more than the type has been: what ReadSize takes for a size, whole or not, is then made
  of bytes that are digits, and is a length.
- CleanTransferIsWhole: `Spec => []WholeWhenClean`. Clean says what holds as long as
  nothing was lost, late or short: the stream ends only after its last byte, so that the
  reads of the type and the size, whose results recv does not look at, find theirs; and
  the size is then the one the sender announced. For the file that is not there, whose
  size is all ones, recv never returns.
- MessageComesBack: `Deserialize(Serialize(m))` is m, its body read as text if the type
  is 1. Written says what byte is where in the file, so that each read of deserialize
  can be settled by itself; no names, body or markers in them can move another field.
- NothingIsTakenForAnother: `Spec => []NothingFalse`. Heard adds to Reading that recv
  has the right type if its payload begins where the sender's does; that is all that
  is left of the stream's order once reads may fail. Then there are three cases. recv
  may have started too early, by a lost read of the type or a short one of the size:
  what it takes for the payload begins with bytes of the type or the size, and no two
  of those are a prefix. Or it holds a proper part of a string: that ends with the
  postfix only if the string does there, and no content has a postfix in it or makes
  one with the markers around it. Or it holds a part of a file: a cut in the first name
  ends the process (CutInName), a cut further on is refused or leaves a body that is
  not what gpg wrote, and gpg opens nothing else.
- CleanTransferIsUnderstood: `Spec => []UnderstoodWhenClean`, by CleanTransferIsWhole,
  MessageComesBack for both layers, and the two markers of each string. A text shorter
  than a block is read up to its first NUL.

The assumption OneHealth is not a convenience: with two health servers a sweep deletes
a user who has registered at another address since, and SweepSound and DirSpec fail.
LeavesByFailedCheck is what remains. The constants' assumptions are ClientAssumption,
ServerAssumption, SessionAssumption, RestAssumption, OnionAssumption, ChatAssumption,
ServerMainAssumption, CodecAssumption, TransferAssumption and FrameAssumption. They say of what kind the
constants are, and little else: SessionAssumption, that the server sends no empty list,
which its broadcast listener sees to; OnionAssumption, that the users are a finite set,
so that a path through them has an end; ChatAssumption, that a line is no higher than
the window; TransferAssumption, that the size of a frame fits into a length (64 bits in
the program) and that a missing file has no bytes. FrameAssumption says the most, and
NothingFalse is false without it. Contents have no postfix in them: lists are names and
addresses, checks random letters and answers hexadecimal digits. No two digits of a size
are a prefix: no size under 53598, the least of the prefixes, has such two, and a message
is a few thousand bytes; a list would need more than a thousand users, and then exactly
such a size. A name's length has a zero for its first digit, what gpg writes is not
empty, and a text (200 bytes at most, `client/ui.cc`) is shorter than the block of 1024
bytes that deserialize reads.

Only model-checked: everything under fairness, which is beyond the prover
(StaleLeaves, LiveIsListed, ListsConverge, Drains, Delivered, Ends, WaitsForAReason,
PhantomsPass, Seen, TakenPortEndsMain, AllServed, Answered, Returns). Every safety
invariant, action property and refinement that a run checks is proved.

## Plan

In this order; each module is written so that it can be proved about.

1. Done: NodeManage, Directory, Client, Server, Onion, Session, Chat, ServerMain, Rest
   with AtomicRest, Codec and Transfer, with their runs.
2. Done: the proofs above, of every safety invariant, and of both refinements.

## Not modelled

SHA1, protobuf, libcurl, psocksxx, ncurses and gpg themselves; hex dumps and
other output; `client/fetch_key.cc`; Makefiles, containers and the test users'
keys. The failed bind of the messenger's listener is an outcome of Listen in
`Session`; in `Client` a messenger whose port is taken cannot start, since there
is one process per address. A socket call that fails for want of resources is
left out, and so are the methods nobody calls: GPG's encrypt, decrypt and
add_public_key, the timeout of TCP_Server. File transfer (message type 2) is
commented out in the UI and only its reception exists: no program sends one. The
order of windows, colours and keys of the login and of the list of users is left
out, as is the text being typed. The text "sent" on the screen says nothing about
whether the message could be sent (`client/ui.cc` 228), and no property claims it.
A POST whose headers end early would keep the REST process in its loop
(`server/rest_server.cc` 98-103); the program's own callers send none.
