# ExplOSion in TLA+

ExplOSion is a distribution: it takes a kernel (Quark), a userland (quarkutils)
and a boot loader (Bang) that live in repositories of their own, adds programs
of its own and builds of other people's, and makes disk images. What is its own
logic, and what these modules are about, is

* the programs that install a system and look after its users (`programs/`),
* the Wayland clients it tests its compositor with (`toolchain/wl*.c`),
* the tools that fill an image and test one (`Makefile`, `tools/`).

Paths below are those of the repository, which `PROJECT.json` names with `src/`
in front.

## 1. The parts, their state and what makes each correct

| part | state | operations | hard because | correct if |
|---|---|---|---|---|
| `qpkg strap` | the new root's files, modes and times; the remembered directories | copy packages, lists, restore times, sync | any call refused, the machine stopped, run again over the rest | what it says is done is done and stays; a list is last; modes and times as they were |
| `copy` in it | offsets, the page | read, write in pieces | short writes, 32-bit offsets | done means whole; it ends |
| `qpkg verify` and the readers | none | read, compare | lists that cannot be read | says what differs, and not what is the owner's to change |
| `bang-install` | the boot partition | copy boot files, write `root.cfg` | stopped halfway over the files the machine starts from; names of disks that change | what it says is there is there and stays; the system it starts finds its root |
| `user` | `/etc/passwd`, `/etc/rights` | add, remove, may, may not | two files, several at once | no right survives its user |
| `as` | none of its own | find the user, ask a password, begin a session | rights read before the password is waited for | nobody becomes another without right and password |
| the window of `wlcairo`, `wlprobe`, `wlclip`, `wlscroll` | what is bound, whether configured, how far `main` is | registry, bind, role, commit, roundtrip, loop | events in pieces of any length, handled inside a roundtrip meant for something else | never thrown out; gives up only for cause; answers pings |
| drawing in `wlcairo`, `wlprobe` | two buffers, the pool, frame callbacks | draw, release, resize | events cross requests | never paint what is shown; keep drawing |
| `wlclip` | the offer, the pipe and who holds an end of it | copy, paste | offers and selections in any order, the copier ended while it is asked | all of a selection or nothing; it ends |
| `wlscroll` | one group of axis events, a deadline | frame, axis, stop | groups that come in pieces, or with nothing in them to print | a line says what its own group said |
| `wlfuzz`, its connection | `inbuf`, what is left of a message | send, read, retry, last look | both sides with full queues; a compositor that leaves in the middle | what is sent arrives whole; never waits for ever; quotes the error |
| `wlfuzz`, what it says | the list of objects, the globals | bind, window, a request at random, note | ids given back and used again while requests are on their way | not refused before it means to be; the list is what there is |
| staging | the stage and its records | forget, install, copy, record | files two trees have; interruption | a stage made without a variable has nothing of it |
| `stage-packages.py` | none | claim each file | patterns that overlap | a file is in exactly one list |
| image making | the image | mkfs, copy | - | straight-line |
| test drivers | a running guest | type, expect, stop | what is on the screen is old or new | a test that passed ran |
| ports, prebuilt clients, fonts, protocols | - | - | - | other people's software |

How they interact. The tools stage a root, `stage-packages.py` writes the
package lists into it last, and an image of it runs. In the running system
`qpkg strap` reads those lists and copies that system into another root, then
`bang-install` copies what `strap` put into it to the boot partition and writes
down which partition is the root, in the order `docs/install.md` gives; `user`
with `--root` works on the new root's accounts before it is ever started. All of
them talk to a file server by messages, one at a time, and the file server
answers a change before it is recorded for good (`sync` waits for that). The
Wayland clients talk to a compositor over a connection that keeps each direction
in order.

Where the code is hard to test is listed in `PROJECT.json` under `hazards`, each
at its line.

## 2. What is here

| module | models | composed with |
|---|---|---|
| `Strap` | `strap`, `make_dirs`, `copy`, `Names::read` of `programs/qpkg/src/main.rs` | implements `Install` |
| `Install` | what a strap promises | |
| `StrapProofs` | theorems of `Strap` and of `CopyLoop` | |
| `CopyLoop` | the loop in `copy` | the step `WriteFile` of `Strap` stands for it |
| `WlWindow` | how `wlcairo.c`, `wlprobe.c`, `wlclip.c` and `wlscroll.c` get their windows, and a compositor | |
| `WlScroll` | the loop of `wlscroll.c` and its groups, on top of `WlWindow` | extends `WlWindow`: the two are one system |
| `WlWindowProofs` | theorems of `WlWindow` and `WlScroll` | |
| `WlBuffers` | the drawing of `wlcairo.c` and `wlprobe.c` and a compositor | begins where `WlWindow` has both of them in their loop |
| `WlBuffersProofs` | theorems of `WlBuffers` | |
| `WlClip` | both halves of `wlclip.c`, a compositor and another client | begins where `WlWindow` has `wlclip` with a window |
| `WlClipProofs` | theorems of `WlClip` | |
| `WlWire` | `send_bytes`, `read_events` and the loop of `wlfuzz.c`, byte by byte | messages are numbers, `WlFuzz` says which |
| `WlFuzz` | the opening, the window, the list of objects and the requests of `wlfuzz.c`, and a compositor that checks them | messages arrive whole, as `WlWire` has it |
| `WlFuzzTables` | the tables of `wlfuzz.c`, and those of the generated protocol code | |
| `WlFuzzProofs` | theorems of `WlWire`, and of `WlFuzz` what its list says | |
| `WlFuzzOpeningProofs` | the theorem about the opening of `WlFuzz` | on top of `WlFuzzProofs` |
| `Staging` | `stage` of the `Makefile`, its scripts and what `stage-packages.py` gives to whom | the files `Strap` finds in lists are the ones it gives away |
| `StagingProofs` | theorems of `Staging` | |
| `Accounts` | `programs/user`, `programs/as` and the accounts files and server as they use them | |
| `BangInstall` | `programs/bang-install` and the disks it may be started from | copies what `Strap` left, whole or not |
| `ProgramsProofs` | theorems of `Accounts` and of `BangInstall`, the smaller programs | |
| `MCStrap`, `MCCopyLoop`, `MCWlWindow`, `MCWlBuffers`, `MCWlClip`, `MCWlWire`, `MCWlFuzz`, `MCStaging`, `MCAccounts`, `MCBangInstall` | small instances | |

### Strap

Packages are numbered in the order of their names, which is the order
`Names::read` keeps them in. A path is the sequence of its names, so that a
directory's parents are its prefixes, as in `make_dirs`. The state is the
program's (`pkg` is `i`, `line` the line of its list with one past the last for
the list itself, `at` how far `make_dirs` is, `dirs` and `dirs_len` the buffer
of names), the new root's (`file`, `mode`, `stamp`) and the disk's (`disk`, what
was last synced, and `touched`, what was changed since).

One action is one call that changes the root, so a refusal, a crash and another
run can come between any two: `MakeDirs` one `mkdir` with the `lstat` and
`set_attr` that follow it, `OpenFile` the truncation, `WriteFile` the loop,
`SetAttr`, `CopyLink` the unlink and symlink, `LinkRefused` an unlink whose
symlink was refused, `SetDirMode` the `d` line, `RestoreTimes` one directory,
`SyncAndSay` the sync and what is printed. `Faults` says which calls may fail:
the ones that stop the program (`call`), and the ones whose failure it passes
over (`names`, `load`, `attr`, `times`, `sync`).

A file is absent, part, whole but for its attributes (`data`) or whole; a
directory's mode is that of a new one, the one it has in the running system, or
its list's; its times are its own or new. Contents, owners, sizes and what is
printed line by line are left out. The running system stands still.

A crash keeps, loses or tears each change since the last sync, independently,
except that what is there is in directories that are there. That is weaker than
what a journal promises, so what holds here holds of ext2 and ext4.

`OnePackageEach` is an assumption about the lists: a file is in one package, no
list is in one. `tools/stage-packages.py` gives each staged file one owner and
deletes the lists before it looks for files (lines 102 and 114-127). Two staged
names that differ only in case would be one path in two lists; nothing that is
staged today has such names.

### CopyLoop

The byte at `i` of the file is called `i`, and the copy is a function from
offsets to those names, so that a byte in the wrong place shows. `AsU32` is
`as u32`. Both a read and a write may be of less than was asked. The file does
not change while it is copied. `bang-install` has the same loop. The names begin
with `copy` so that `StrapProofs` can speak of both modules.

### WlWindow and WlScroll

`who` is the program. `pc` is how far it is through its `main`, of which
there are four (`MainCairo`, `MainProbe`, `MainClip`, `MainScroll`), and `waits`
where it is in a dispatch. What a client asks for is
`buffered` until a roundtrip or the loop writes it (`requests`); what it is sent
(`events`) is read in pieces (`queue`), of any length, and a piece is handled to
its end before the roundtrip that read it returns. That is why a configure may
come in an earlier roundtrip than the one that waits for it, or in none.
`wlclip_primary` is `wlclip --primary`, which cannot do without one thing more.

No `main` looks at whether a roundtrip failed (`wlprobe.c:373`, `:382`, `:422`,
`:434`, `wlcairo.c:340`, `:359`, `wlclip.c:237`, `:270`, `:278`, `:287`,
`wlscroll.c:262`, `:294`, `:302`). When the end of the connection is found
(`HandleEnd`: libwayland looks at it before it hands on anything else it read) `waits`
is "lost" for good. In the loop that ends the program. In a roundtrip it does not:
the roundtrip returns, so does every later one at once, and `main` goes on, asking
for things nobody will take, until it misses a global, was never configured, or
comes to its loop.

The compositor is external: what it has (`offer`, a version of each interface,
or none) is chosen once, and so is `prompt`, which says of it that it answers
in one piece everything it was sent and configures a window before it answers a
later sync. It refuses (`error`) a bind it did not offer, a buffer shown before
a configure was acknowledged, and the acknowledgement of what was not sent. It may
ping, configure again, ask to close, show frames, leave, and send `wlprobe`
input it does not act on, at any time.

`WlScroll` adds the pointer's events of `wlscroll.c`: `have` is its four flags,
`axis` and `groups` its own. Below version 5 of `wl_seat` there is no frame and
every axis event is a group. `said`, `due`, `of` and `line` are auxiliary: what
the group said, how many should have been printed, and the line that was. A
group about both axes has one line, and which of the two axes it names is not
looked at. `late` is the deadline; the code looks at it when it is woken.

What a program prints of what it hears, `wlprobe`'s keyboard map, and what is
painted are left out.

### WlBuffers

The client is one thread: it takes an event, and after a frame callback draws;
`paint` is a state of its own, so that the compositor reads while it lasts.
Requests and events are two queues. The compositor may release a buffer at any
time after a commit of it, the one shown included if it keeps a copy, may answer
a frame callback before or after, and may resize the window. `prompt` says of a
compositor that it releases everything it no longer shows before it asks for
more; it is chosen once, at the start. `busy` is by slot, as in the code; an
event for a buffer the client has destroyed is dropped by libwayland-client
(`Alive`). wlprobe is the instance that is never resized (`MaxResizes = 0`).

### WlClip

Both selections, since the code does the same with either; `kind` is which. The
copier creates its source, offers the type, sets the selection and answers;
`writing` and `closing` are the two calls of `send`, so it can be ended between
them. The paster looks for a selection in roundtrips (`looking`, `roundtrip`,
`resting`), asks for the content (`asking`), flushes, closes its own end
and reads. `holders` is who holds a write end of the pipe: the paster, the
buffer of its connection, the request on its way, the compositor's event to the
owner, the owner. A reader comes to the end when the set is empty, and nobody is
ever added to it who was not handed an end by somebody in it. `offer` is the
last offer announced, of whatever kind; `offers` is whose source is behind each.

Another client takes the selection with or without the type, clears it, or drags
over the window (clipboard only: a drag is an offer with no selection).
`OtherAnswers` writes all or nothing. The copier is killed anywhere, and what it
held is closed.

Not in it: a `pipe` that fails, a paster that is killed, and a compositor that
dies between the selection and the request, which leaves the end in libwayland's
buffer and the paster reading for ever. Pings are in `WlWindow`, where
`wlclip` is the one that does not answer them.

### WlWire

Bytes are numbered. `stream` is what the client has put into the socket, of each
byte which message it is of (its number, its length and whether it has a
descriptor), where in it, and whether a descriptor goes with it;
`ends` is where each event ends in what the compositor says (`EndOf`, and `SizeOf`
how long that makes it). `taken` and `written` are how far the compositor is. A socket holds `Room` bytes each way, so both can be
full: the compositor writes what it has to say before it takes more (`Owed`),
and a client that did not read would stop both. `Send` is one `sendmsg` that
takes some of it, `Again` the read that comes before the next try, `Retry` the
millisecond and the count, `Receive`, `Parse` and `ParseWaits` one `recvmsg` and
the loop over what it brought, `LastLook` the reads at the end of `main`.

The compositor may stop for good (`stuck`), say why and leave, or leave without
a word; a leaving one whose client does not read leaves with the rest unsaid.
Taken for granted: an event fits `inbuf` (the constant's assumption: libwayland's
own buffers are smaller); in the millisecond between two tries a compositor that
is not stuck does what it can do without the client; `sendmsg` to one that has
gone is an error and not a signal. That the code is safe with events that do not
fit is not claimed.

### WlFuzz

`objects` is the list of the code, in order, of at most `MAX_OBJECTS`; `pick` is
any live object of a kind. A request is a record of the object, the opcode, the
arguments and whether its shape is right; a random argument is one value of each
way of being right or wrong, and the random number generator is the choice among
them. `ReadEvents` takes all there is and acts on what the code acts on: globals,
configures, `delete_id` and data offers; an error is the end of the connection.

The compositor takes requests in order and checks each as libwayland does,
against `WlFuzzTables`: the object exists, the opcode is one of its interface's,
the shape decodes, a new id is the next or one given back, an object is of the
kind asked for; and what xdg-shell asks beyond that (`Legal`). The tables of
xdg-shell and the decorations are those of `clients/*-protocol.c`; the core's are
external and taken to be those the fuzzer has. Anything else ends the session.
Taken for granted: a compositor configures a window when it becomes a toplevel,
before the fuzzer's tenth of a second is over; a message of a broken shape is
refused. Left out: descriptors nobody asked for, the versions that requests came
with, and the order in which random numbers come. A number taken at random for an
id (`:552`, `:563`) is one that no object has (`Nowhere`): that it happens to be
the next id, or one just given back, is left out.

`ServerHalf` is where the ids of the compositor's own begin (0xff000000 in
libwayland), and `IdsAssumption` that the fuzzer does not get there: its opening
takes sixteen ids at most and a turn of its loop five.

A new object is asked for under an id in use now and then (`:566`). Mostly that is
refused. But the id may have been given back already, with the `delete_id` not
read yet: then the compositor takes it, and the fuzzer, when it reads the
`delete_id` of the old object, marks the new one dead (`:395`). Such a request, and
a bind whose kind was guessed (`:703`), set `astray`: from there on the two lists
need not agree, and `SameObjects` says nothing.

### Staging

The stage (`stage`, of each file where its contents came from) is never emptied;
beside it are the four records at its top (`rec`). `step` is the command of the
recipe that is at work, `queue` the sources or records it has yet to go through
and `todo` the files of the first. One action is one file copied, removed or
installed, or one line's worth of writing down, so a make can be stopped between
a copy and its record. `fresh` is copied and not written down. The clients' data
is copied as a whole and written down as a whole (`Whole`), everything else file
by file.

`Order` is the order of the commands and loops, in which a later source replaces
an earlier one; `share` is the data that comes with the clients. What coreutils
does not replace (`Kept`) is what is there under its name or under `Twin`, the
name FAT wants of it. `MoveAs`, `WriteDownAs` and `PutAsBack` are the three
commands about the assembler, and `AsReplaced` is `cmp`. A stopped make may leave
this half done: the next begins at `Make`. The caches are made if there is a
configuration for them and a `quark-fc-cache` on the machine that builds
(`MakesCaches`); that is as good as a variable, and is in `asked`.

A command that fails is a `Stop` where the recipe looks: the scripts are under
`set -e`, and so is a line of the recipe that is one command. Where several are
joined by `;` only the last one's failure is seen, and any before it is an action
of its own: the copies of `PROGRAMS` and of musl (`InstallFails`; `Loose` is these
files), the copies of the clients and suites (`CopyFails`) and the lines added
for them (`WriteDownFails`), and the directory, the move and the line of the
assembler (`MoveAsFails`, `WriteDownFails`). A copy that fails leaves what was
there or a part of the file.

A source no variable names is gone through like the others and has no lines.

`stray` and `missed` are history: files that a make had in hand and, stopped or
failing, never wrote down, and files this make went on without. It may have
because it could not copy them, because it took what a stopped one had left for
this system's -- a program of coreutils' stays out if there is a file under the
name FAT wants of it, whoever put it there (`Keep`,
`tools/stage-coreutils.sh:65`) -- or because the trees had come to install a file
under the name of a program of coreutils' staged before, which is then taken out
again (`RemoveFile`, `tools/stage-coreutils.sh:36`). They say where a stage may
differ from one made of nothing (`Touched`), and which files of this system's it
may lack (`OursThere`).

The trees may grow between two makes (`TreesGrow`), by any file the recipe does
not name itself, also by one that coreutils has; what that does is under "What
disagrees" below. The assumptions say that the paths of the recipe are different
ones (`StagingAssumption`), that coreutils' programs have names for FAT which are
not theirs and not those of what this tree builds (`TwinAssumption`), and that a
suite's list runs no program of this system's (`ListsAssumption`). The trees never
shrink, and what `PROGRAMS` and musl put in is taken as theirs.

### Accounts

Both programs are sequences of calls; one action is one call, so those of
another session come between. `user` reads, changes and writes `/etc/rights`
with nothing held (`MayRead`, `MayWrite`; `Remove`, `RemoveRead`,
`RemoveWrite`), `as` decides whose password to ask for (`AsRead`), waits
(`AsAsk`), and the server decides with the files as they are then (`AsBegin`).
Every call may fail: where the code looks, the command ends (`Fail`), where it
does not, it goes on (`RemoveForgets`, `MayRead` of `Unread`). A command may be
ended anywhere (`Kill`).

The library (`RightsOf`, `WithRecord`, and all of adding and removing a user) and
the server (`Answer`) are external, taken as this repository uses them: one call
to either is one step. `Words` is what a line can hold: rights that have no name
of their own are there in `all` or not at all. A user is its name; the number is
left out, so a number that is used again is not modelled.

`should` and `ever` are history: what a user was given and not taken back, and
what a name was ever given. `clean` is true until a call fails or two commands
are at work at once.

### BangInstall

`src` is what `qpkg strap` left in the new root of each boot file, and `Strap`
there is one step: everything, or what a refused one may leave. It may come
again between two `bang-install`s. `esp` is the set of files on the boot
partition that are whole and of this root: a new partition and one with another
system's files are the same to it. `Fixed` are the three files with a place of
their own, the loader first; `Modules` is the drivers directory, read `Page`
entries at a time, and `todo` what is in hand of either.

`OpenFile` is the truncation and `Write` the loop of `copy` (`CopyLoop` has it in
pieces). `DirUnread` is the call whose failure is taken for the directory's end,
the second case of `FindRoot` an id that could not be asked for, the second of
`SyncAndSay` a sync that failed; `passed` remembers which of the three there
were. Every other failure is `Refused`. A crash keeps, loses or tears each file
changed since the last sync, and the drivers take their names again, in any
order (`DriverNames`). `was` is the name the target had as it was installed to.

Not in it: directories that are made, which are refused like any other call;
names that FAT takes for one another and names cut at 32 bytes (the assumption
that `Fixed \o Modules` is injective says there are none); modules of an earlier
system, which stay on the partition and do no harm to what is looked at here;
the note about a partition that is not marked.

## 3. What the runs check

| run | instance | shows |
|---|---|---|
| `strap` | three packages over four directories, two runs, any call refused, any crash | `SaidIsDone`: done means every file, link, list and listed mode of every set asked for, and a crash afterwards takes nothing back; `TimesRestored`: each directory with a file in it, or no room for its name; `ModesKept`; `KeepsPromise`: `Install` is implemented, so that no list is whole before its files |
| `strap_skipping` | one run, every failure the code passes over, and refusals | `ListsTellTrue`: what a package's list says is there is there, whatever was left out |
| `strap_unread` | a list that cannot be read in its turn | violates `SaidIsDone` |
| `copy` | pages of 3, 8 offsets, files of 0 to 9 | `CopiedWhole` for all, `Ends` for those of less than 8 |
| `wl_window` | the four programs, `wlclip` also for the primary selection; compositors with everything, with an old seat, without decorations and the primary selection, a seat, or a shell | `NeverRefused`; `GivesUpForCause`: a program gives up its window only for want of something or after a roundtrip that failed, and none fails but at a compositor that went or threw it out; `LineTellsGroup`: `wlscroll`'s line is about its own group; `AnswersPings`; `Ends`: `wlscroll` goes |
| `wl_buffers` | two buffers, two sizes, two resizes after the first configure | `NeverPaintsHeld`; `SizeFollows`: what is painted has the size last told, or there was no memory for it; `KeepsDrawing` with a prompt compositor |
| `wl_clip` | 3 bytes copied, 5 of the other client's, room for 4, two tries, two interferences | `AllOrNothing`; `GetsSelection`: left alone, a paste is what was copied, or nobody ever told it; `PasteEnds` |
| `wl_wire` | messages of 2 and 3, events of 2 and 4, sockets of 2 | `InStep`: events are acted on in order, once, when all of one is there, and as soon; `ArrivesWhole`: no message begins before all of the one before it was sent, and each descriptor goes with the first byte of its own; `SaysWhy`: a compositor that said why it left is quoted; `EndsForCause`: it never takes a compositor for dead because both waited |
| `wl_fuzz` | four compositors, two or three messages after the opening, a list of 12 | `OpeningLegal`: nothing of the opening is refused, up to what is bad on purpose; `SameObjects`: the list of objects is what there is |
| `staging` | five files of ours and one to come, six sources, three packages; any number of makes with any variables | `AsFromNothing`: a stage is what its variables would make of nothing; `WrittenDown`: nothing of somebody else's is lost sight of; `OursThere`: every file of this system's is there but those this make went on without; `ListsDescribe` |
| `accounts` | three users, two sessions, three commands, anything failing | `AsGiven`: clean commands do what they say, and a name begins anew; `EverGiven`: whatever goes wrong, nobody has what the name was never given; `SaysWhy`: the right password is never called wrong |
| `bang` | two files and three modules read two at a time, two disks, with an id and without; two straps, two runs, anything failing, any crash | `SaidStarts`: what is said to be on the partition is all there, whole and of one root; `FindsRoot`: `root.cfg` names that root's disk and no other, after any restart |

`TypeOK` is checked by `strap`, `copy` (`CopyTypeOK`), `wl_window` (of `WlScroll` and `WlWindow`
together), `wl_buffers`, `staging`, `accounts` and `bang`.

Bounds and why they are enough.

* `strap`: `core` makes a directory with a mode of its own before it puts a file
  and a link in it, so a mode and an inherited mode meet; `fonts` goes to the
  directory below, with room for both names and not for both twice (`DirsMax`
  is 7, they take 8); `extra` is of a set not asked for and in the same
  directory. Two runs, since the second starts from anything the first can
  leave and what a third would start from is of the same kind; `SaidIsDone` and
  `KeepsPromise` are proved for any number.
* `copy`: lengths either side of one page and two, and of the number of offsets.
  `MaxAt` is where a copy that never ends is no longer followed.
* `wl_window`: two configures are the first and one that comes when nobody waits
  for it; an event that is not asked for is sent when no other waits
  (`MaxUnread` 0), but any number of answers may. One gesture is heard before
  the next; the fourteen of them are the combinations of up to three events, and
  what a group leaves behind is a set of flags, so that the next shows it.
* `wl_buffers`: three pools are the fewest with one current, one put aside and
  one long gone whose release is still on its way.
* `wl_clip`: the copier's bytes fit and may come in pieces, the other's do not
  fit; two interferences are a selection that replaces the copier's and one that
  replaces that, is cleared, or is a drag. `AllOrNothing` is proved for any.
* `wl_wire`: a socket holds less than a message and less than an event, so each
  is cut, and both may be full; an event as long as `inbuf` and one as long as a
  header. A compositor that is well, and writes what it has to say a
  byte at a time, may make a message fail several tries: with four or fewer
  `EndsForCause` is violated in this instance, with six it holds, and 7 is one
  more. The code has 2000. `ArrivesWhole` is proved for any.
* `wl_fuzz`: the compositor is one request behind at most (`MaxBehind`), which
  is what puts a `delete_id` and the next use of its object in either order; two
  messages are one that changes what there is and one that uses it, three where
  little is offered. What is offered is split over four compositors: between
  them every request of every table is sent.
* `staging`: `as` is in the trees and in the toolchain, `libc.so` is musl's and in
  the toolchain, so that a copy of it that fails leaves nothing, an old one or the
  toolchain's; `PASSWD` is in the trees and
  in an overlay, `ls` in the trees under FAT's name and in coreutils, `cat` in
  coreutils, among the clients under FAT's name, so that a make that is stopped
  after it was copied changes what the next one keeps, and what the trees come to
  have; a list of tests is in the trees and one in a suite. The number of makes is
  not bounded;
  `MaxUpsets`, one stop, failed command or growth in a history, is: a second would
  start from a stage whose files are as before but for `stray`, which the first
  already makes any. The theorems are for any number.
* `accounts`: three commands are the fewest with one that changes a line between
  the read and the write of another and something to lose; a name that is
  removed and added again takes four, and the proof of `EverGiven` has any number.
  `identity` stands for the rights without a name.
* `bang`: two modules in one call to read the directory and one in the next; a
  table with an id and one without; drivers' names up to symmetry. Two runs, the
  second over what the first left, and a strap between them; both theorems are
  for any number. A strap after the last run is left out (`runs < MaxRuns`):
  nobody looks at the root then.

Deadlock is not checked: `strap` and a copy end, a window is closed, commands
are no longer given, a client of a compositor that is gone has nothing to wait for.
In `staging` it is: there can always be another make.

Fairness. `CopyLoop`: the program goes on (`WF` of its next step). `WlBuffers`:
the client's loop goes on (`while (wl_display_dispatch(d) != -1)`); the
compositor takes requests, gives back what it no longer shows, and answers frame
callbacks. Nobody has to resize or close a window, and no fairness helps a
client that has asked for nothing. `WlWindow` and `WlScroll`: the program runs, a
compositor takes what it is sent, configures a window that has none and shows
the frames of one on a screen (`wlscroll` looks at its deadline only when it is
woken by one), and time passes. `WlClip`: both halves run, the compositor passes
on what it is sent and whoever is handed the pipe answers; nobody has to tell the
paster of a selection, whose window may never have the focus. `WlWire`: the
client runs, and a compositor that is not stuck takes what there is and writes
what it has to say; it may become stuck or leave whenever it likes.

### What disagrees with what is written

* A list that cannot be read counts as one of another set, and `strap` says it
  is done without that package (`strap_unread`;
  `programs/qpkg/src/main.rs:606`).

Met while modelling, without a run of their own:

* Only directories with files in them get their times back
  (`programs/qpkg/src/main.rs:670`), though the reason given is caches of
  directories, and `/usr/share/fonts` has a cache and no files. `TimesRestored`
  says what holds.
* Once a compositor asks for a frame before it has released a buffer, `wlcairo`
  and `wlprobe` never draw again (`toolchain/wlcairo.c:311`): nothing else wakes
  `draw`. `KeepsDrawing` says it of compositors that release first.
* What coreutils' script put in at the last make it removes by name after the
  installs (`tools/stage-coreutils.sh:36`), where the name may be this system's by
  now: when the trees have come to install a program that was staged of
  coreutils', theirs goes, coreutils' is copied again and written down again, so
  every later make does the same. The first with no `COREUTILS` has neither of the
  two, and only one after that has this system's. The script says that this
  system's keeps its name (lines 17-20), and the one that removes everything else
  says why it runs before the installs. `OursThere` and `AsFromNothing` have these
  files for an exception (`missed`).
* A copy of one of `PROGRAMS` or of musl that fails does not end a make
  (`Makefile:153-162`): the stage is said to be done without it, or with the one
  of the make before. The loop looks at whether `cargo build` failed, so that this
  is meant is doubtful. `OursThere` says what holds.
* A client of a compositor that goes during a roundtrip says that a global is
  missing or that it was never configured, having been offered all of it:
  `GivesUpForCause` has that for its exception.
* `user remove` says it is done when the rights of the user were not taken out
  (`programs/user/src/main.rs:139`), under a comment that says a later user of
  the name does not find them. `AsGiven` says what holds of commands that do not
  fail.
* `qpkg` and `bang-install` do not look at the answer of their `sync`
  (`programs/qpkg/src/main.rs:678`, `programs/bang-install/src/main.rs:287`), each
  under a comment that says what is about to be said is that the data is recorded.
  `passed` and `NoQuietLoss` are where the models say so.
* `wlfuzz`'s windows are "made properly" (`toolchain/wlfuzz.c:13`, `:735`, and
  `toolchain/README.md`), but have no commit before they are configured, and a
  window after the first acknowledges the last serial of any (`:770`). A
  compositor that waits for the commit is treated badly from the start; one that
  configures at once is what `WlFuzz` has. Its opening waits only for
  `wl_compositor` (`:858`): what is announced more than a read later is not
  bound, and there may be no window at all.
* `wlprobe` binds `wl_output` at 2 and `wl_seat` at 4 without looking at what is
  offered (`toolchain/wlprobe.c:67`, `:69`), and is thrown out by an older one;
  `NeverRefused` says so (`ByNumber`).
* `wlclip` has no listener for pings at all; `AnswersPings` leaves it out.

## 4. What is proved

For every value of the constants that the named assumptions allow, by TLAPS. The
assumptions of the modules are about what a constant is; the others are named
here and said what for.

`StrapProofs`:

* `TypeCorrect`: `Spec => []TypeOK`. Needs `StrapAssumption` only.
* `SaidIsDoneHolds`: `Spec => []SaidIsDone`, if no failure that is
  passed over loses anything (`NoQuietLoss`: reading names and lists, and the
  sync, do not fail; the run `strap_unread` shows that it is needed). `SaidIsDone`
  alone is not inductive. The invariant is `StrapInv`:
  every package before this one is complete (`PackagesBehind`), every line
  before this one is done except that a path that comes twice may be being
  copied again (`LinesBehind`), every package was seen (`AllSeen`), and what was
  said is the last thing that happened (`SaidLast`). `OnePackageEach` is what
  keeps copying one package from undoing another: without it a second package
  that truncates a file of the first, and is refused there, breaks
  `PackagesBehind` (`OthersStayComplete`).
* `PromiseKept`: `Spec => KeepsPromise` under the same assumption,
  step by step: the initial states map, and every step is a step of `Install` or
  leaves its variables alone (`StepPromised`). `ListIsLast` is the case where
  all the lines of a package are behind.
* `ListsTellTrueHolds`, from the assumptions of `Strap` and no other: any call
  may fail, be skipped, or be the last before a crash. By `FirstRunInv`: of a
  first run, no list is begun ahead of the package at hand (`ListsAhead`), and the
  files of the lines behind are whole (`FilesBehind`). It is about the program at
  work or done; what a crash leaves is `KeepsPromise`'s.
* `ModesKeptHolds`, if setting a mode does not fail either (`NoQuietLoss` and
  `"attr" \notin Faults`). By `ModesInv`: of a first run each directory there is
  has the mode of its line, or waits for the line that gives it one; the disk has
  it too, since a crash may come between.
* `TimesRestoredHolds`, if names and lists are read and times can be set
  (`NothingPassedOver`); the sync may fail. By `TimesInv`: the directory of every
  file put in so far is remembered or had no room (`Covered`, `DirsBehind`), and
  of those remembered the first ones have their times back (`TimesBehind`). Room
  only gets less, so who had none would have none later (`DirsBehind` is kept by
  every line for all the lines before).

* `CopyTypeCorrect` and `CopiedWholeHolds`, of `CopyLoop` and its assumption alone,
  by `CopyInv`: between any two calls the copy is a beginning of the file. For a
  file too long for its offsets the invariant says only that the copy is not done.

`StagingProofs`, from the three assumptions of `Staging`:

* `TypeCorrect`, by `TypeInv`: which lists may be left at each command (`QueueOK`;
  while sources are copied, the rest of `Order` from one of them on), and what can
  be in hand there (`InHand`: the files of the tree, the source or the caches at
  hand, and nothing at all between two commands).
* `WrittenDownHolds`, by `WrittenInv`. It is not inductive by itself: a record is
  deleted after the files it names, so it must be known that what has been gone
  through of it is out of the stage (`GoneThrough`). Only a stop, or a line that
  could not be added, turns what is in hand into what nobody has written down.
* `OursThereHolds`, by `OursInv`: nothing else counts as this system's (`OnlyOurs`);
  the installs leave every file of the trees there but those whose copy was passed
  over, and what comes after them takes none of them away for good (`Installed`).
  The one list of files that are taken out after the installs is coreutils', and
  what the trees have of it is `missed` as it goes; nothing is assumed of what the
  trees grow by. What is written down of coreutils is of coreutils
  (`OthersPrograms`), so no other file goes with it. While the assembler is between
  its two places it is known which command puts it back.
* `ListsDescribeHolds`, on top of `OnlyOurs`: the only claim left to a file of this
  system's is the last package's (`LastPackage`), because the lists that run its
  programs claim nothing and the others do not run them (`ListsAssumption`).
* `AsFromNothingHolds`, by `FromInv` on top of all of these. A stage over which
  the installs have gone, with every record deleted, has this system's files and
  nothing else but what is stray (`Emptied`, `OnlyInstalled`: here `WrittenDown`
  and `OnlyOurs` meet). From there each file that is not stray is, at every
  source, what the sources gone through make of it, or is among the lines still to
  come of this one (`CopiedSoFar`, with `UpTo`); after the last source that is
  `CopiedFrom` (`AllSources`). That coreutils keeps what is there under either name
  is no different from keeping what the trees have, because what else could be
  there is stray or `missed`. The assembler's two places then change (`AsMoved`),
  and the configuration, the caches and the list of hostile tests are added
  (`Finished`). The proof did not go through as the property was first written:
  it left out the programs a make keeps out because of a stray file under their
  other name, and what follows from one that is missed (the caches from the fonts'
  configuration, the assembler's other place from `usr/bin/as`). `missed` and
  `Touched` have them now, and the instance has a client that shows the first.

`ProgramsProofs`, of `BangInstall`:

* `BangTypeCorrect`, from `BangAssumption`. Its parts about `touched` carry the rest:
  what is on the disk is what is there but for what was changed.
* `SaidStartsHolds`, by `StartsInv`: between two calls nothing that
  is behind is missing (`Copies`: all but what is in hand and what the directory
  has yet to give, `Ahead`), a command that has said so is over, and if its sync
  did not fail nothing is touched any more. `PageRange` is why no entry falls
  between two pages.
* `FindsRootHolds`, by `FindInv`: the line found, then the file, then
  what was synced is what `Told` says, and `ToldIsTarget` has it that only one
  disk answers to it: ids differ by assumption, names because drivers' do.

`WlWindowProofs`, from `WindowAssumption`, `ScrollAssumption` and
`GestureAssumption` (a gesture is a sequence of pointer events). All of it rests
on `Typed` and on `Placed` (the program is somewhere in its `main`). Each client
has two wires, and each wire two parts, written and not: the proofs look at
`ToClient` and `ToServer`, the two joined, so that a flush and a read change
nothing, and at `Road`, all of what an answer has ahead of it. A step then asks,
is told, hears or is taken (`MainMoves`, `HandlerMoves`, `CompositorMoves`), and
what it leaves alone of a kind of message it leaves alone of every statement
about that kind (`LoudStill`).

* `LineTellsGroupHolds`, by `LineInv`: the four flags are what was said since the
  last frame (`MarksTell`), `g_axis` is an axis of it, and a seat without frames
  leaves nothing behind (`AxisTells`). That is what goes wrong if a frame forgets
  to clear a flag: not the line it prints, but the next.
* `NeverRefusedHolds`. What the compositor checks is checked when it takes a
  request, long after it was sent. `SerialInv`: the serials on their way are those
  after the last acknowledged, in their order, acknowledgements before configures;
  so an acknowledgement that arrives is of the configure that is next. `AckInv`: a
  buffer on its way has an acknowledgement ahead of it unless one was taken, a
  program past its wait is configured, and one that is configured has asked for
  the acknowledgement. `wlprobe` with an older compositor is left out by
  `ByNumber`, as in the run.
* `GivesUpForCauseHolds`, by five more on top of those. `LostInv`: the end of the
  connection is sent only when the compositor no longer serves (`Sent`), so a
  connection that is lost was lost at one that went or refused; the other four say
  nothing of a program whose connection is lost. `RoundInv`: one answer is
  on its way at most, and only while a roundtrip waits for it. `GlobalsInv`: while
  the first roundtrip waits, every interface that is offered and wanted is bound,
  or its announcement (or the request for it) is on the way ahead of the answer;
  after it, all that is needed is bound, so a program that says something is
  missing tells the truth. `SurfaceInv`: a surface is committed once it has its
  role and not before, so nothing is configured early. `ConfigureInv`: a
  compositor that is `prompt` has taken the commit before it answers the roundtrip
  and has configured before it answers; so whatever pieces the events come in, the
  configure is handled before that roundtrip returns.
* `TypeCorrect`, from the invariants before and three more. Two bounds of `TypeOK`
  are about the wires and not about an assignment: `acked \in 0..serial` is a part of
  `SerialInv`, and `formats \in 0..Formats` needs `FormatInv`, which counts messages
  of a kind (`Count`, `JoinedCount`): of a request for the registry, an announcement
  of `wl_shm` and a bind of it there is one on the way at most, each comes of the
  one before, and until it is taken no format has been said. `HeardInv` (listeners
  are only for what is bound) holds because they are added behind the look at what
  is missing, of which `GlobalsInv` tells.

`WlBuffersProofs`, from the assumption of `WlBuffers`:

* `NeverPaintsHeldHolds`, by `BufInv`. That the client paints no buffer the
  compositor may read is not
  inductive: a release on its way clears a slot, so it must be known that the
  buffer is not at the same time in a commit behind it. `OnceEach` says that no
  buffer of the current pool is twice on a queue, `OnePlace` that it is in a
  commit on its way, held, or in a release on its way, in one of them at most,
  and that its slot is busy if it is; `Drawing` that what is being painted is a
  free slot, and that pools put aside are gone before the next event is read, so
  that a late release of theirs cannot clear a slot of the current one.
* `TypeCorrect` and `SizeFollowsHolds`, by `TellInv`. The sizes on their way are the
  last that were asked for, in their order (`InOrder`, which counts them), nothing
  is drawn before the first is heard (`FirstIsFirst`), and the size wanted is the
  last that was heard, or there was no memory (`LastIsWanted`). `PoolPerSize` is
  why pools do not run out: each is for a size that was heard; without it `gen`
  has no bound and `TypeOK` does not follow.

`WlClipProofs`, from `ClipAssumption`:

* `AllOrNothingHolds`, by `ClipInv`. The end
  of the pipe is in one place at a time (`GivenOnce`: one holder but for the
  paster, one request, one event), what is asked for was announced
  (`OfferNamed`), and how much has been written is told by where the end is
  (`Amount`): nothing until an owner has it, everything when an owner has closed
  it having written. So when nobody holds an end, what is in the pipe and what
  was read of it is all or nothing.
* `GetsSelectionHolds`, by `AloneInv`: with nobody else about and the copier alive,
  the selection is set once, behind its type, and told of once, behind its type
  (`Once`, `KindKnown`), so the offer there is is still the one that was asked of,
  and an end that is closed was closed by a copier that wrote all (`Answered`).

`WlFuzzProofs`, of `WlWire`, from `WireAssumption`:

* `ArrivesWholeHolds`, by `StreamInv`: the last byte of the stream is where the
  message at hand is. Before any of it was taken, and between two messages, the
  stream is whole up to the last that counts as sent (`WholeUpTo`); after that, the
  last byte is byte `done - 1` of this one (`LastByte`). So the next byte follows
  it, whatever reading, retrying or giving up comes between.
* `InStepHolds`, by `WireInv`: `inbuf` begins where the next event does, and has
  not all of it unless it is being looked at (`ReadInv`); each event ends after
  the one before it (`EndsInv`). The model keeps where events end, not how long
  they are, so that no sum over them is needed.
* `SaysWhyHolds`, under `EnoughTries`: `TRIES` times what a socket holds is no less
  than a message and all the compositor may say. Every try is paid for with a
  socket's room of bytes that were taken or written since the message was begun
  (`Pace`), so a message is not given up while the compositor is well or leaving,
  and what it said last is read (`EndInv`). The assumption counts what is said in
  the whole run against the tries of one message, so it asks for more than is
  needed; 2000 tries at a socket of a page are eight million bytes. The instance
  `wl_wire` satisfies it, and with too few tries `EndsForCause` fails there.

`WlFuzzProofs`, of `WlFuzz`, from `FuzzAssumption` and `IdsAssumption`:

* `SameObjectsHolds`, by `StepRight`. What is there and what is listed differ by
  what is on its way, each request over the tables and by the kind of its object,
  which may itself be on its way. So the invariant (`Matches`) speaks of a `T`, the
  kind each id has, had or is to have: ids are given out once, so there is one. And
  of an `n`: either all the requests on their way are as they were meant, and then
  the two agree about what there will be (`Agree`); or the first `n` are, and the
  next is one that is refused, with a new id that cannot be (`Refusable`), and then
  it does not matter what the list says. `MadeOnce` says of each id on its way that
  one request makes it, that it is not there yet, and that nothing in front of that
  request is about it; `GivenBack` that a `delete_id` on its way is of something
  that is gone and will not be made again, so that marking it dead is right;
  `OffersRight` that an offer on its way is not listed and not used yet. From these
  `AliveRight` and `DeadRight` follow at every step, and with nothing on its way
  they are `SameObjects`.

  The invariant reads a request as the protocols have it, the fuzzer as its own
  tables have it. That these agree, for every kind and opcode (one new id at most,
  in the same place and of the same kind, and the same requests destroy), is
  `ProtocolRight`: of xdg-shell and the decorations, whose protocols are taken from
  the generated code, a row of the fuzzer's tables in the wrong place breaks it.

`WlFuzzOpeningProofs`, from the same and what `WlFuzzProofs` proves:

* `OpeningLegalHolds`, by `OpeningInv`, under `EnoughRoom`: `MAX_OBJECTS` is at least
  11, the most that is made up to the window's `xdg_surface` (two, seven binds, two;
  the code has 512, the run 12); with less, the window could have nothing to be
  picked from, or its configure not be known for one. That every argument is of the right
  kind, that every new id is the next one and that the serial was given depend on
  all that was sent before, so the invariant is that there is a script of the whole
  opening (`Script`): `K` says what each id from 4 on is bound as, `f` is the id the
  window's surface has or will have, `s` of its lines (`Line`) are sent and `t`
  taken. From these four follow what the compositor has (`Served`), what is on its
  way (`Queued`), where the fuzzer is and what it has listed (`SentAt`), and what it
  was told (`HeardAt`): the first configure is of its own window, with the serial it
  then acknowledges. Each of the compositor's steps takes line `t + 1`, which is
  legal after the first `t` (`LineTaken`, from one lemma for each line); each of the
  fuzzer's sends line `s + 1` (`WindowInOpening`, `BindInOpening`), or ends the
  opening, after which the lines still on their way are all that is asked of it. A
  bind makes a script with one more kind (`Rebound`), which is why `K` and `f` are
  not fixed from the start; that it asks for what was offered, in a version that
  was, is `GlobalsRight`.

`ProgramsProofs`, of `Accounts`, from `AccountsAssumption` and `DistinctAssumption`
(what stands for no line and for a file that could not be read is not a line and not
a file):

* `TypeCorrect`, by `AccountsInv`, with what a session has in hand at each call of its
  command: no rights before they are read, nobody's password asked for but in `as`,
  and nothing typed before it was asked for (`OfItsCommand`).
* `EverGivenHolds`, by `AccountsInv` too: not only the rights in the
  file are
  within what was ever given, but every copy of it that a command has read and
  not yet written back (`Given`, `NeverMore`), and what a command is about to
  write is such a copy with what was just given. That is why a write over
  somebody else's change, or a command ended halfway, may lose a right and never
  makes one.
* `AsGivenHolds`, by `InOrder`: as long as nothing failed and nobody was at work
  beside another, a copy that was read is what is there (`Fresh`), users have what
  they were given (`Lines`), and nobody else has a line but who is just being
  removed (`NoOthers`), so a name begins anew.
* `SaysWhyHolds`, an action property: of every step, from `Hands` (what a session
  at work was given).

Only model-checked:

* liveness (`Ends`, `KeepsDrawing`, `AnswersPings`, `PasteEnds`, `EndsForCause`),
  which is out of TLAPS's reach;
* `SaidIsDone` and `ModesKept` where failures are passed over: they do not hold
  there, and the runs `strap` and `strap_unread` have that as instances.

## 5. What is not modelled, and the plan

In this order.

1. `Packages`: what a list says of a file (checksum, capabilities, whose it is to
   change), and `verify` over the same lists, which passes over a package whose
   list cannot be read (`programs/qpkg/src/main.rs:441`).
2. `CrashOracle`: what `crash-test.sh` takes for an unreplayed journal (`:123`),
   and how `drive-qemu.py` waits for a line (`:208`), where a prompt that was
   there before the command may be taken for its answer. `Manifest`: the scan of
   `readmanifest.py`.

Not modelled:

* the ports and their tests: other people's software and scripts that build it;
* image making: straight-line scripts over `debugfs`, `mtools` and `dd`;
* `guide`, and what `qpkg`'s `list`, `info`, `files`, `owner`, `sets` and `verify`
  print: they change no state;
* what is printed and what is painted;
* the headers and events of the generated protocol code in `clients/`, which
  only pass a call on to libwayland: of it, the tables of requests are modelled;
* that `qpkg` reads its lists three times (`programs/qpkg/src/main.rs:604`): the
  running system stands still while it is copied from;
* everything behind the messages - the file server, the accounts server, the
  block drivers and the compositor are in other repositories and are modelled
  only as what the programs here may meet.

## 6. Running

    tlc -config MCStrap.cfg MCStrap.tla        # each run: its cfg and module are in PROJECT.json
    tlapm StrapProofs.tla                      # and the other modules of theorems
