# sphaira, modelled in TLA+

sphaira is a homebrew menu for the Switch: file browser, installer, dumper,
downloader, FTP/MTP/USB endpoints and virtual file systems in one C++ program.
Nearly everything it does that takes time runs on threads of its own, joined to
the main (UI) thread by mutexes, condition variables, events and flags. This
directory holds TLA+ modules for those parts, the TLC configurations that
check them, and TLAPS proofs about them. Paths below are relative to
`src/sphaira/source/` unless they say otherwise.

## 1. Inventory

| Part | State | Operations | Talks to | What is hard |
|---|---|---|---|---|
| **Threaded transfer** `threaded_file_transfer.cpp` | two ring buffers, a pull buffer, offsets, running flags, four results, done event | `Transfer`, `TransferPull`, three worker functions, the join loop | progress box (cancel), every copy/hash/dump/extract in the program | three threads and the caller, waits guarded by `if`, wake-ups sent without the mutex, errors of one of three threads |
| **Stream install** `ui/menus/install_stream_menu_base.cpp`, `yati/source/stream.cpp`, install folders of `ftpsrv_helper.cpp` and `haze_helper.cpp` | a bounded buffer, `m_active`, `INSTALL_STATE`, menu state, queue of file names | start/write/close from the server thread, `ReadChunk` from the install thread, `Update`, done callback and destructor in the main thread | FTP/MTP server, progress box, installer | three threads, three locks, a global flag; the menu may be closed at any time |
| **Installer** `yati/yati.cpp` | placeholders, content storages, meta databases, application record | stream or random-access install, skip test, removal of the installed versions, register, commit, push record | ncm/ns/es services, transfer sources | dozens of service calls, each of which may fail or be the last before the power goes |
| **Download manager** `download.cpp` | queue, its thread, four workers, ETag cache (memory and file), stop tokens | `ToMemory`, `ToFile`, `FromMemory`, async forms, cache get/set, exit | event queue, curl | signals and flags between queue thread and workers, owners that go away, a cache that may be ahead of the file it describes |
| **Title information** `title_info.cpp` | request list, results, loader thread, a count of users | `Init`, `Exit`, `PushAsync`, `GetAsync`, `Get`, `Clear` | ns/ncm services, menus, mod installer | check, load, insert without the lock in between; pointers that outlive the lock |
| **Network files** `utils/devoptab_common.cpp`, `utils/devoptab_{webdav,ftp,http}.cpp` | a bounded buffer and its flags per transfer | open, read, write, seek, close; curl's callbacks | curl | the file call and the curl thread pause, resume and cancel each other |
| **Virtual file systems, the rest** `utils/devoptab_*.cpp` | mount table, per-device mutex, read-ahead buffers | newlib file calls, mount, unmount | libsmb2, libnfs, archives | unmount while open |
| **USB install** `ui/menus/usb_menu.cpp`, `usb/*.cpp`, `src/tools/usb_install.py` | endpoint buffers, cancel event, list of names, the host's place | connect, open, read, close, quit | host script, progress box | two programs that must agree on whose turn it is; timeouts; cancel in between |
| **Dumper** `dumper.cpp`, `utils/nsz_dumper.cpp` | none of its own | dump to a file, USB, network, `/dev/null` | transfer, USB | its callbacks decide which corner of the transfer is used |
| **Progress box** `ui/progress_box.cpp` | stop source, cancel events, a thread | `RequestExit`, `ShouldExit`, add/remove cancel event | main loop, everything long | the thread outlives a request to stop; events registered late |
| **Event queue** `evman.cpp` | a list | push, pop | main loop, download workers, nxlink | order of removal and insertion |
| **Application** `app.cpp`, `main.cpp` | widget stack, services | push, pop, update, start, exit | everything | order of shutdown |
| **Servers** `ftpsrv_helper.cpp`, `haze_helper.cpp`, `nxlink.cpp` | a thread each, enabled flag | init, exit, file calls | network/USB host, install menu | callbacks run under the shared mutex |
| Menus, widgets, settings, themes, cloud drives, forwarders, music, formats, vendored code | see `PROJECT.json` | | | sequential, or no logic of the program's own |

For each part, the properties that make it correct:

* *transfer*: the output is the input, in order, once each, however the threads
  interleave; success means all of it; an error of any thread is returned; the
  call returns; a cancel ends it.
* *stream install*: the installer sees the bytes in the order the host sent
  them; closing a file returns after its install; no file is dropped silently;
  the server thread and the menu cannot block one another.
* *installer*: a listed title has its contents at every moment at which the
  power may go; a failed install has not taken away what it could not replace;
  success is for good.
* *downloads*: each request is answered once, with its own result, unless its
  owner is gone; exit ends every thread before what it uses is freed; the file
  is always a whole version, and no failure keeps an old one for ever.
* *title information*: nobody reads a result that was freed; no request is
  lost; the last user's exit ends the loader.
* *network files*: a read returns the blocks at its position, whatever was
  buffered; a closed upload is whole; every call returns.
* *USB*: the endpoints have one user; success means that everything was read;
  nothing on the console waits for the host for ever.

`PROJECT.json` lists every component with its status, and every hazard with its
line.

## 2. Plan

Done, in this order (each `...Proofs` module holds the theorems about its
neighbour):

1. `RingBuf`, `ThreadedTransfer`, `OrderedCopy`, `ThreadedTransferProofs`: the
   pipeline every long operation uses, and the copy it promises.
2. `InstallStream`, `InstallStreamProofs`: server thread, install thread, menu.
3. `PushPull`, `PushPullProofs`: curl's thread against the file calls.
4. `DownloadQueue`, `DownloadQueueProofs` (requests, workers, callbacks, exit)
   and `FileDownload`, `FileDownloadProofs` (temporary file, rename, ETag,
   restart).
5. `YatiInstall`, `YatiInstallProofs`: the order of an install and its commit,
   with failure and loss of power at every step.
6. `UsbInstall`, `UsbInstallProofs`: menu, protocol and script.
7. `TitleInfo`, `TitleInfoProofs`: menus, loader, boxes.

Left, most useful first:

* proofs: the transfer's order of blocks with a decompressor, or with a source
  that ends early;
* the single-threaded transfer loop, and threads that cannot be created;
* the read-ahead cache of `devoptab_common.cpp` against a plain read, and the
  mount table with files that are open at unmount;
* the dump protocol over USB (`usb_export.py`).

## 3. The modules

Each module begins with what it covers and which stretch of the code is one of
its steps. `TypeOK` documents the variables; one run of the transfer checks it,
and it is proved for every module that has theorems (under the hypotheses of
section 6 for `InstallStream` and `FileDownload`). Operators marked "Mutant"
are plausible bugs; the list of mutants in `PROJECT.json` says which property
each of them breaks.

### `RingBuf` — the index arithmetic of `RingBuf<Size>`

`read_buffers` and `write_buffers` are records of a slot array and two linear
indices that run over `0 .. 2 * Cap - 1`, as in the code (the code doubles the
range to tell full from empty). A push and a pop *swap* vectors with the
caller's, so a pop leaves the caller's old vector in the slot: that is kept,
because a stale pop then delivers it.

### `ThreadedTransfer` — `thread::Transfer` and `thread::TransferPull`

The unit of data is what one call of the read callback delivers; a
`std::vector` is the sequence of units in it, an offset counts units. The
`off` field that rides with a ring entry is left out: the order of `output`
says the same.

| Model | Code |
|---|---|
| `pc[t]`, `stage[t]` | the statement a thread is at; inside a Get/Set function, how far it is (before the lock, about to sleep, asleep, woken, holding the mutex) |
| `LockMutex`, `CondvarWait`, `Relock` | `mutexLock` and the first test; `condvarWait`, split into release-and-sleep and relock. The code waits under `if`, so `Relock` goes on without a second look |
| `GiveUp` | `R_TRY(GetResults())` |
| `ReadLoop` … `SetPullBuf` | one action per loop head, callback and monitor body of the three worker functions |
| `Exit`, `Report` | the scope guard that clears the running flag; then `SetReadResult` and its siblings with the wake-up and the done event |
| `PullStart`, `GetPullBuf`, `GetPullBufPart`, `PullEnd` | the consumer of `TransferPull`, in the calling thread |
| `WaitForEvent`, `WakeAllThreads`, `Results`, `Return` | `TransferInternal` after the threads have started |
| `Cancel` | `ProgressBox::RequestExit`, which all loops see through `GetResults` |

Points of fidelity that matter:

* the early return of `SetDecompressBuf` and its siblings (the other side has
  stopped) happens before the scope guard is armed, so the mutex stays locked;
  `WakeAllThreads` later unlocks mutexes it does not own. A `mutexUnlock` by a
  thread that is not the owner is modelled as releasing the mutex;
* `SetWriteBuf` tests the flag of the thread that calls it;
* a worker's flag is cleared before its result is stored, in two steps;
* a condition variable has one possible waiter, so waking one or all is the
  same and no queue of waiters is kept; there are no spurious wake-ups;
* the progress event of the wait only redraws; a pull consumer may ask for
  part of a buffer once per buffer.

### `OrderedCopy` — what the transfer promises

A copy that appends the next block or stops, and never does anything after it
has returned. `ThreadedTransfer!ImplementsCopy` is this specification with
`output` as its output.

### `InstallStream` — installing what a host sends over FTP or MTP

Three threads: the *server* thread serves the host's calls on the install
folder, the *install* thread belongs to the progress box and reads the stream,
the *main* thread runs the menu, or the box on top of it, and destroys both.

| Model | Code |
|---|---|
| `session` | what the menu is opened for: which folder, how many files of which size, how much of each the installer reads, and which of four things happen: the install fails, the host aborts, the user cancels, the user leaves |
| `server`, `main`, `install` | where each of the three threads is |
| `server \in InCallback` | the server thread holds `g_shared_data.mutex`: it does through a whole callback of the menu, waits included |
| `main = "settle"` | `m_mutex` of the menu is held (the box's done callback, while it waits for the mutex above) |
| `queued_files`, `in_progress`, `enabled` | `g_shared_data` of `ftpsrv_helper.cpp` and `haze_helper.cpp` |
| `Open`, `Write`, `Close`, `CloseReturns`, `ServerExit` | `vfs_install_open`, `_write`, `_close`; `FsInstallProxy`; the end of the server |
| `StartNext` … `StartNew` | `on_thing` and `OnInstallStart`: the two polls for the previous install, then the new stream |
| `PushHead`, `PushBody` | the loop of `Stream::Push`: the two tests outside the mutex, the body under it |
| `ReadChunk` | the loop of `Stream::ReadChunk` |
| `InstallBegins` … `InstallDisables` | the callback of the progress box, around `yati::InstallFromSource` |
| `Update`, `Cancel`, `BoxEnds`, `BoxDone`, `Settle` | frames of the menu, the box, its destructor and done callback |
| `Leave`, `ServerJoined`, `RequestStop`, `StopDisable` | destructor of the FTP or MTP menu, then of their base |

A section under the mutex of a `Stream` is one step, because `condvarWait`
releases it and nothing else that blocks happens inside; the waits are under
`if`, so a woken thread goes on without a second look. `m_active` and
`INSTALL_STATE` are read outside the mutex where the code does (`PushHead`,
`StartSource`, `CloseReturns`), and a failed install disables the menu's
*current* stream, not the one it was given. The installer is what it does to
the stream: it reads on until it has what it wants, fails or is cancelled.
`Quiet` is the state in which nothing is left to do but to wait for somebody
outside. `InstallStreamMC` names the sessions of the runs.

### `PushPull` — a file on a network mount

`PushPullThreadData` joins the file calls (made one at a time) to a thread in
`curl_easy_perform` by a bounded buffer. The calls are those of
`utils/devoptab_webdav.cpp`; FTP and HTTP have the same ones.

| Model | Code |
|---|---|
| `main` | the thread that makes the file calls: idle, creating a transfer, in `PullData` or `PushData` of its side, in the destructor of the thread data |
| `curl` | the thread of the transfer: in `curl_easy_perform`, in its write callback, about to pause or resume, ended |
| `Read`, `PositionChanged` | `devoptab_read`: a read elsewhere than where the last one ended deletes the transfer and starts one from there |
| `Create` | `CreatePushData`, `CreatePullData` |
| `PullData`, `PushData` | the file's side of the buffer |
| `Cancel`, `Resume`, `Join` | `~PushPullThreadData`: `Cancel`, first under the mutex and then `curl_easy_pause` without it, and the wait for the thread |
| `Receive`, `Deliver`, `Send`, `Progress`, `SetPause` | the three callbacks curl makes |
| `Received`, `NetworkFails`, `ThreadEnds` | the return of `curl_easy_perform` and what the thread does after |

`moved` stands for "dlnow or ulnow is not zero": the progress callback does
nothing before. libcurl itself is external, modelled by the calls it makes.

### `DownloadQueue` — asynchronous requests

| Model | Code |
|---|---|
| `Add`, `Queued` | `ToFileAsync` and its siblings, `ThreadQueue::Add`: high priority goes to the front |
| `Wake`, `Lock`, `Scan`, `Erase` | `ThreadQueue::ThreadFunc`: the wait, then one test of one entry against one worker per step, then the removal of what was given out; the queue's mutex is held from `Lock` to `Erase` |
| `Setup`, `WakeWorker`, `Run`, `Answer`, `PushResult`, `ClearProgress`, `SignalQueue` | `ThreadEntry::Setup` and `ThreadFunc`; the last five are separate steps, because no lock joins them |
| `queue_event`, `thread_event` | the `UEvent`s: a flag that a wait clears |
| `events`, `Launch`, `Pop` | `evman`: results wait here, a launch removes its own kind, the main loop calls the callback unless its token was stopped |
| `Stop` | a menu goes and triggers the stop token that its requests carry |
| `ExitFlag` … `Cleanup` | `App::~App` and `ExitSignal`/`Exit` of `download.cpp`: flag and signals, the widgets, the joins one by one, the handles one by one |

### `FileDownload` — a cached download to a file

One path, a server whose file changes version, downloads that follow one
another for ever, and the program ended in good order or not at any step.

| Model | Code |
|---|---|
| `Start`, `Get` | `GetDownloadTempPath` and the open of the temporary file, which is not truncated; `Cache::get`, which only answers for a file that exists |
| `NotModified`, `Modified`, `NetworkFails` | the server (external): 304 to its own ETag, else the file |
| `Write`, `Set` | the write callback; `Cache::set`, in memory, *before* the file is in place |
| `DeleteOld`, `Rename`, `Remove` | `DeleteFile`, whose result is ignored; `RenameFile`, which refuses to replace; the removal of the temporary file |
| `Quit`, `Crash`, `Restart` | `Cache::exit` writes the JSON file; a crash does not; `Cache::init` reads it |

A file is the sequence of the versions its blocks came from, so a mixture of
two versions, or a version with a stale tail, can be told from a whole one.

### `YatiInstall` — the order of an install

The console's state is `content` (registered contents per storage), `db` (meta
database in memory) with `disk` (as of its last commit), and `record`. An
attempt is one run of `InstallInternal` or `InstallInternalStream` with a
`job`: version, target storage, order of the package, settings.

| Model | Code |
|---|---|
| `Skip`, `CreatePlaceHolder`, `Fill`, `Installed` | `InstallNca`, `InstallCnmtNca`: a content that is registered already is not installed again; else placeholder and data |
| `Check`, `ShouldSkip` | `GetLatestVersion`, `ShouldSkip`; a database that cannot be listed counts as empty |
| `List`, `NextKey`, `DeleteContent`, `RemoveKey`, `CommitRemoval` | `RemoveInstalledNcas`: per storage and key, the contents (but not the skipped ones), the key, the commit |
| `DeleteForRegister`, `Register`, `Registered`, `Set`, `Commit` | `RegisterNcasAndPushRecord`, the cnmt first; `ncm::Register` deletes a content of that name first |
| `PushApplicationRecord`, `PushLaunchVersion`, `Cleanup`, `Return` | the rest of it; the destructor deletes the placeholders that are left |
| `Call`, `Crash` | a call that fails; the power goes: what was not committed is gone |

`torn` remembers the versions whose removal was under way: `ListedIsWhole`
lets those be listed without their contents, because the removal deletes the
contents before the key.

### `UsbInstall` — a package from a PC

| Model | Code |
|---|---|
| `thread`: `Poll`, `Connected`, `NotConnected` | the connection thread of the menu: `WaitForConnection` until it succeeds or is stopped |
| `install`: `Register` … `Closed` | the callback of the progress box: open, read, close of each file |
| `main`: `Update` … `QuitDone` | frames of the menu, the box, `~Menu` with its cancel, stop, join and the goodbye of `~Usb` |
| `stage`: `Send`, `Sent`, `Answered`, `Received`, `GiveUp` | `SendAndVerify` and `TransferAll`: header, result, data; a timeout or the cancel event takes the buffer back |
| `host`: `Take`, `Write`, `Exception` | `usb_install.py`: a read of a header, a write of a result or of data, each of which waits for the console |
| `in`, `out` | what the endpoints hold |

A header's meaning depends on where the script is: a read of nothing, which
closes a file, and the header that opens the connection are the same bytes, as
in the code. A read that fails on the PC is answered with an error, and then
the script is in one of two places (`Written`): `BlockingIOError`, and a seek
backwards in a compressed RAR, leave it in the file loop, where the console's
close is a close; any other `OSError` is answered at `usb_install.py:88-90` and
puts it back among the commands, where the same bytes are `CMD_QUIT` and the
script ends. Time is not modelled: a timeout may fire whenever a transfer is
under way, so the console may take the host for slow at any moment. This is
what makes the retries of `Poll` hard.

### `TitleInfo` — names and icons of the titles

| Model | Code |
|---|---|
| `Open`, `Close`, `Joined` | `title::Init`, `title::Exit` in a menu's constructor and destructor; the last one waits for the thread with `g_mutex` held |
| `Show` | another menu is put in front |
| `Ask`, `Look`, `ReadResult` | drawing an entry: `PushAsync`; `GetAsync`, which returns a pointer and gives the locks back; the use of that pointer |
| `DeleteCache`, `Update` | "Delete title cache" and the rescan it causes |
| `WaitEnds`, `Swap`, `NextTitle`, `Load` | `ThreadData::Run` and `Get`: the wait (signal or three seconds), the swap, the look-up, the load without a lock and the insertion |
| `StartBox`, `BoxGet`, `BoxLoad` | a backup whose thread wants a title: `title::Get`, with `g_mutex` held to its end |
| `BoxClears` | `msp::Install`, which ends with `title::Clear` |

`dangling` becomes true when the result somebody holds a pointer to is freed.
A rescan for other reasons (a game card, a finished install) is left out.

### The proof modules

`ThreadedTransferProofs`, `PushPullProofs`, `DownloadQueueProofs` and
`UsbInstallProofs`: section 6.

## 4. The runs

| Run | Instance | Shows |
|---|---|---|
| `transfer_copy` | 8 blocks, rings of 2, the write may fail, the user may cancel | completeness, mutual exclusion, the failure is returned, the call returns, refinement of `OrderedCopy` |
| `transfer_errors` | 4 blocks, every callback may fail, a block is swallowed, cancel | cancelling ends the transfer from every state, also those in which workers sleep for good |
| `transfer_pull` | 4 blocks, a consumer that may stop early | order; the join loop drains the workers that wait for the consumer |
| `stream_install` | `AllSessions`: 3 files of 5 blocks (one more than the installer wants), FTP or MTP; a file of 5 whose install fails or is cancelled; a file of 3 where everything happens; buffer of 3 | order, nothing lost, a close waits for its install, no use after free, every file is dealt with, box and menu close |
| `push_pull` | 4 blocks, buffer of 2, calls of up to 3, seeks anywhere, a network that may fail | reads deliver the blocks at their position, are short only after a failure; a closed upload is whole; every call returns |
| `downloads` | 3 requests, one urgent, one whose owner goes, 2 workers, a launch after the third | no wake-up is lost, requests keep their results, handles outlive their use, no callback comes twice or too late, every request is answered, exit ends |
| `file_download` | versions of 1, 2 and 2 blocks, the second without an ETag, up to 3 of six kinds of fault | the file is never a mixture; success means the server's version; no failure keeps an old file for ever |
| `yati_install` | 2 versions that share a content, 2 storages, 2 attempts with any settings, 2 faults | listed means whole, success is for good, nothing goes before its replacement is there, no downgrade unasked |
| `usb_install` | 3 files of 4 blocks, reads of 2, five kinds of fault, timeouts at will | one user of the endpoints, success means complete, leaving and installing end |
| `title_info` | 2 titles, 2 menus, one Clear | no use after free, what is asked for after the Clear is loaded, the last exit ends |
| `transfer_stale_block` | decompressor that swallows a block | **finding**: a leftover vector is written again |
| `stream_queue_stuck` | 2 files, the install may fail | **finding**: after a failed install with a second upload waiting, main and server thread wait for one another |

**Bounds.** *Transfer*: the rings of the code have two slots (`RingBuf<2>`,
`threaded_file_transfer.cpp:197-198`), and so have those of the runs: the
capacity is the code's own. Eight blocks are twice
the index range, so every slot is reused twice; the runs in which more goes
wrong use four, one round more than fits into a ring and a pending vector.
*Stream*: a write of up to two blocks fits the buffer of three, fits in part,
or not at all; five blocks fill it more than once; three files are one being
installed, one waiting, and one that is opened meanwhile. *Network file*: with
a buffer of two, a chunk may have to wait although there is some room, and a
call of up to three is larger than the buffer. *Downloads*: three requests for
two workers leave one to wait, so that a worker's end must wake the queue.
*File*: two blocks are enough for a torn file; versions that grow, because
those that shrink break the property (below); `TempNames = 2` makes the names
repeat. *Installer*: two versions are an update, a downgrade and a repair; two
attempts with two faults are a failed one and the one after it. *USB*: reads
of two make a file of four take two, so that a repeated one can be seen; the
third file shows that the second left nothing behind. *Titles*: two results,
so that one may be freed or moved while another is read; two menus, so that
the first to close is not the last; one Clear, as `EntriesLoad` is about what
follows the last one.

### Instances that break a property

Every one of these was checked, is a behaviour of the code, and is the reason
for a bound above. Each is a change of constants in a configuration kept here.
Where a call never returns TLC stops at the deadlock it ends in.

| Property | Instance | What happens |
|---|---|---|
| `Termination` | `transfer_copy` with `Size = 4`, a decompressor with `Kept = {1, 2, 3}`, no failure, no cancel | the wake-up at the end of a thread falls between the test and the wait of another, which sleeps until the user cancels |
| `Termination` | `transfer_pull` with `Size = 3`, `MayFail = {"read"}` | after a read error the consumer waits for a buffer nobody will deliver |
| `ErrorIsReported` | `transfer_copy` with `Size = 4`, `MayFail = {"read"}` | the join loop trusts the running flags, which are cleared before the results are stored: success after a failed read (`threaded_file_transfer.cpp:626`) |
| `Served` | `stream_install` with one file of 4, of which 1 block is wanted, `MaxBuffer = 2` | the install has succeeded while the server is asleep in `Push` on a full buffer: an install that succeeds does not disable the stream, nobody wakes it |
| `MenuCloses` | a file larger than the buffer, and the user leaves | the server sleeps in `Push` with the shared mutex held; the menu's destructor wants that mutex before it sets `request_stop` and disables the stream |
| `CloseWaits`, `SourceAlive` | 2 files of 1 block | the host closes the file before the install thread has set `INSTALL_STATE`; the next file's stream then replaces the one that is being installed |
| `InOrder` | 2 files of 2 blocks | as above, and the end of the replaced install makes `Push` drop the blocks of the next file and report them as taken |
| `MenuAlive` | `Rough` with `WasEnabled`, `MaxBuffer = 2` | a server that keeps running may be in a callback of the menu when the menu goes |
| `CallsReturn` | `push_pull` with `SlowConnect = FALSE` | curl's first read callback finds the buffer empty and pauses; nothing has moved, so the progress callback never resumes it, and a write larger than the buffer waits for ever |
| `Answered` | `downloads` with `NotCreated = {1}` | a worker that could not be created looks free for ever: the scan gives it requests nobody takes (`download.cpp:1071`) |
| `SuccessIsServed`, `Recovers` | `file_download` with `"delete"` among the faults | the old file could not be deleted, so the rename fails, but its new ETag is recorded: the next download gets 304 and reports success, for ever (`download.cpp:802`) |
| `SavedOnSuccess` | `file_download` with `Faults = {"delete"}` | `include/download.hpp:21` says "the received etag is then saved on success."; it is recorded before the file is in place (`download.cpp:790`) |
| `NeverTorn` | `file_download` with `Size <- Shrinking`, `Untagged = {}` | a temporary file that a crash left behind is not truncated (`download.cpp:709`): its tail becomes part of a shorter version |
| `SuccessIsServed` | `file_download` with `Worker = {w1, w2}`, `Overlap = TRUE`, `MaxFaults = 0` | two downloads of one path: the slower puts its older version over the other's |
| `NoDowngrade` | `yati_install` with `"list"` among the faults | a database that cannot be listed counts as empty, so a newer version is removed unasked (`yati.cpp:1174`) |
| `SuccessIsInstalled`, `ListedIsWhole` | `yati_install` with `"commit"` among the faults | after a commit that failed, memory and disk list different versions; the next loss of power brings back one whose contents are gone |
| `SuccessIsComplete` | `usb_install` with `"late"` among the faults | a header that the host took while the console gave it up shifts the two sides against one another; the next connection attempt is answered with what was meant for the first |
| `ResultsAlive` | `title_info` with `ModsFrom = {"games"}` | a mod is installed from a screen that shows titles (a file browser on the mods' folder does, `ui/menus/filebrowser.cpp:643`): `Clear` in the box's thread frees the result that the main thread is reading |
| `EntriesLoad` without `clears = MaxClears` | `title_info` | an entry in `Progress` when something else clears the results, a mod for instance, is not asked for again and keeps its placeholder name (`ui/menus/game_menu.cpp:791`) |

More of the same kind, read off the models: a host whose header was taken by
an attempt to connect that then timed out blocks in a write the console never
reads, until the menu is left (USB); an install with "skip if already
installed" reports success for a version that an earlier loss of power left
torn (installer); a load that was under way at `Clear` inserts what it had
read before (titles); `title::Init` leaves `g_thread_data` set when the thread
cannot be created (`title_info.cpp:503`).

The findings about the transfer have one root: outside the case "full source,
no read or decompress error, decompressor that does not shrink its input" a
thread reaches the Get of an empty ring whose producer is about to end. The
case is real: NSZ export (`utils/nsz_dumper.cpp`) passes a decompress callback
whose output is smaller than its input, and `dumper.cpp` uses `TransferPull`.
A decompressor that passes everything on (`Kept` all blocks, `FlushMax = 2`)
keeps all properties; it writes several blocks at a time, so `OrderedCopy`,
which appends one, is then replaced by `InOrder`.

## 5. Fairness

*Transfer.* `FairSpec` gives every thread weak fairness of its own steps (the
kernel schedules it; a callback that was called returns; an unlocked mutex is
eventually taken by a waiter). Weak fairness per thread is enough because a
blocked `LockMutex` is re-enabled only finitely often in these instances. No
fairness is given to `Cancel`: a user is never obliged to cancel.

*Stream.* Weak fairness of the server, the install and the main thread, and of
the frame that pushes the box (the main loop draws frames). The host goes on
with a file it has opened: the server is configured with no timeout
(`ftpsrv_helper.cpp`), so nothing in the program ends the wait for a host that
never calls again, and no property could be had without this. Nothing obliges
the host to open a file, or the user to cancel or to leave. `Served` is about
sessions in which the host does not abort and the user does not leave.

*Network file.* Weak fairness of both threads. That of `Curl` says that the
network goes on or fails, and that curl calls its progress callback from time
to time, also while the transfer is paused (libcurl documents that it does).
Nothing obliges the program to make a file call. `SlowConnect` is an
assumption, not fairness: curl asks for the first data to send after the first
write has put some into the buffer.

*Downloads.* Weak fairness of the queue thread, of each worker, of the main
loop taking events, and of the shutdown once begun. That of a worker contains
an assumption: a transfer ends. A stopped or quitting program ends it itself,
in curl's progress callback; otherwise it is up to the server, as
`download.cpp` sets no time limit. Nobody has to ask for anything, or to quit. For
`Recovers`, each step of a download is taken, downloads are asked for again,
and the program is started again after it ended; the faults are bounded.

*Installer.* None: the run checks safety.

*USB.* Weak fairness of the threads on the console and of `Exchange`: a
transfer completes or times out. The wait for the install to start, and the
frame that pops the menu, are frames of the main loop. Nothing is assumed of
the host or of the cable.

*Titles.* Weak fairness of the loader, of the box's thread, of the join and of
the frame's own steps; strong fairness of drawing per menu: a menu that is
shown again and again is drawn again and again, which is what a frame is.
Nothing obliges the user. `EntriesLoad` assumes that the menu in question is
shown again and again.

## 6. Proofs

TLAPS proves the following for every value of the constants that the modules'
assumptions (`TransferAssumption`, `CapAssumption`, `InstallStreamAssumption`,
`PushPullAssumption`, `DownloadQueueAssumption`, `FileDownloadAssumption`,
`YatiInstallAssumption`, `UsbInstallAssumption`, `TitleInfoAssumption`, all
evaluated by the runs) allow. Where a theorem needs more, it names it: each
such hypothesis is a definition of its own, is satisfied by an instance that a
run checks, and is there because the property is false without it. The table
of instances in section 4 has the behaviour of the code that each one excludes.

| Hypothesis | of | Says | Without it |
|---|---|---|---|
| `OnlyTheEndFails` | transfer | only the write or the pull callback may fail | `ErrorIsReported` fails: flags are cleared before results are stored |
| `PlainCopy` | transfer | as above, no decompressor, and the source has what was announced | `InOrder` fails: a pop of an empty ring |
| `TakesAll` | transfer | a pull does not report an error | whether that is a success is then the consumer's choice |
| `OwnServer` | stream | the menu started the server | `MenuAlive` fails |
| `Orderly` | stream | each session has one file; or files larger than the buffer, sent in full, into the MTP folder, or into the FTP folder with no install that fails | `SourceAlive` and `InOrder` fail: a second file replaces the stream of the first |
| `LargeUnlessLeft` | stream | files of sessions that `CloseWaits` speaks of are larger than the buffer | `CloseWaits` fails: a small file is closed before its install has begun |
| `GrowingSizes`, `OneAtATime` | file download | a newer version is not shorter; one request per path at a time | `NeverTorn`, `SuccessIsServed` fail |
| `DeleteWorks` | file download | the old file can be deleted | `SuccessIsServed` fails |
| `ListingWorks` | installer | listing the meta database does not fail | `NoDowngrade` fails |
| `CommitWorks` | installer | committing it does not fail | `ListedIsWhole`, `SuccessIsInstalled` fail |
| `InTime` | USB | no transfer completes in the moment it is given up | `SuccessIsComplete` fails |
| `ModsFromElsewhere` | titles | a mod is installed from a screen without titles | `ResultsAlive` fails |

**`ThreadedTransferProofs`**, for every `Size`, `Cap`, callback and mode:

* `TypeCorrect`: `Spec => []TypeOK`. The ring lemmas bound the indices by
  `2 * Cap`; every action is one step.
* `MonitorsExclude`: `Spec => []MutualExclusion`. `MutualExclusion` is
  inductive only together with the fact that the calling thread, once in the
  join loop, does not leave it (`StaysJoined`); the lemmas `Lock_Exclusion`,
  `Release_Exclusion`, `Leave_Exclusion`, `Goto_Exclusion` say what each kind
  of step does to the owner of a mutex.
* `ErrorsAreReported`: `OnlyTheEndFails` gives `Spec => []ErrorIsReported`. The
  property looks at the moment of return; `ErrorInv` carries the cause there:
  a thread leaves its loop early only for a reason that `GetResults` sees
  (`Root`), and the caller starts to join only when that reason is stored.
* `BlocksInOrder`, `SuccessHasAllBlocks`: `PlainCopy` gives
  `Spec => []InOrder`, and with `TakesAll` `Spec => []SuccessIsComplete`. Both
  properties speak of `output` alone. `PipeInv` says where every other block
  is while nothing has failed: between the offsets of two threads lie exactly
  the blocks in the ring, and the one a thread holds; `Holds` says which slots
  of a ring have them, and the lemmas on `ringbuf_push` and `ringbuf_pop` show
  that the doubled indices make it a queue. From this a Get never meets an
  empty ring, which is what goes wrong elsewhere. `OutputInv` says that
  `output` is the blocks up to the write offset.
* `TransferImplementsCopy`: with the same hypotheses `Spec => ImplementsCopy`,
  the refinement of `OrderedCopy`: the initial states map to its initial
  state, the write or pull callback to `CopyBlock`, the return to
  `ReturnSuccess` or `ReturnFailure`, and all the rest, some thirty actions of
  four threads, to a stutter.

**`PushPullProofs`**, every safety property of `PushPull`, for every file
size, buffer limit, chunk and call size, with and without failures and
`SlowConnect`: `TypeCorrect` (with `Len(buffer) <= MaxBuffer`),
`ReadsTheFile` (`Spec => []ReadsFile`), `ShortReadsFail`
(`Spec => ShortOnlyOnError`), `UploadsAreComplete` (`Spec => UploadComplete`).
All four come from one inductive invariant, `IInv`. `ReadsFile` alone is not
inductive: it says what was delivered, not that what is in the buffer comes
next. `Download` adds that while a transfer lives (is not being deleted) the
blocks delivered, the blocks in the buffer and the blocks still to come follow
each other without a gap, and that a download that ended well has reached the
end of the file; `Upload` says the same of the blocks sent and the blocks
buffered; `Control` says which of the two threads may be where. Each action is
a lemma of its own over a few lemmas about runs of consecutive blocks.

**`DownloadQueueProofs`**, for every number of workers and any set of requests:
`TypeCorrect`, `WakeupsArrive` (`Spec => []NoLostWakeup`), `RequestsAreKept`
(`Spec => []RequestKept`), `HandlesOutliveUse` (`Spec => []HandlesAlive`), from
one inductive invariant:

* `ScanInv`: during a scan without an event pending, every worker the scan has
  passed is busy or about to signal; so it is with all of them when the scan
  gives up with entries left. This is what `NoLostWakeup` needs when the queue
  thread goes to sleep: a worker that became free after it was looked at has
  set the event, or is about to;
* `WorkInv`: a worker that has a request is marked as in progress, and one
  that was told of a request has not begun another; a scan can therefore not
  overwrite what a worker is about to answer;
* `EventInv`: every result on its way belongs to its callback;
* `FreeInv`, `RunInv`: a handle is freed after its worker has ended, the share
  after all of them, and the program runs until it quits.

`CallbacksComeOnce` (`Spec => CallbackOnce`) needs `OnceInv` besides: until it
is answered a request is at one place only, an entry that the scan has not taken,
a worker that has not pushed, or an event; so an entry may not be taken twice
when the queue is erased, shifted by an urgent request, or scanned again.

**`InstallStreamProofs`**, for every number and size of files, every buffer,
write and read, and any set of sessions that satisfies the hypotheses:
`StreamInOrder` (`Spec => []InOrder`), `SourceOutlivesInstall`
(`Spec => []SourceAlive`), `ClosesWait` (`Spec => []CloseWaits`) and, with
`OwnServer` alone, `MenuOutlivesCallbacks` (`Spec => []MenuAlive`). The first
three come from `StreamInvariant` (`Spec => []StreamInv`). The
sessions of `stream_install` satisfy them all. Every conjunct of
`StreamInv` is a fact that the three threads rely on and none of them checks:

* `Life`: the box, the menu's state and `INSTALL_STATE` go together;
* `Exits`: the menu stops after the server has ended. It is inductive by
  itself and all that `MenuAlive` needs;
* `Queued`, `Untouched`: the file in progress is the first of the queue and has
  the menu's stream; a file that waits has no block in a stream yet;
* `Alive`: the stream that is read is the menu's, and its outcome comes with
  the end of the install;
* `Starts`: nothing is started between the start of a file and its install,
  when `INSTALL_STATE` is still that of the last one. This is the heart of it,
  and holds for a different reason in each kind of session: there is no other
  file (`Single`); the first one cannot be closed before its install reads,
  as the buffer does not hold all of it (`Held`); and no failed install
  disables the queue in between (`Successful`);
* `InOrder`, inductive given these, by lemmas about a write that appends to the
  buffer (`Pushed`) and a read that splits it (`Taken`).

**`FileDownloadProofs`**, for every sequence of versions and any number of
workers, temporary names, faults and crashes: `FileNeverTorn`
(`Spec => []NeverTorn`) from `TornInv`, which says what is in a temporary file
at every step: the blocks received so far, then what an earlier download left,
never more than the version has; `SuccessServed` (`Spec => []SuccessIsServed`)
from `ServedInv`: no tag is recorded that the server has not given out, and the
server's current tag, in memory or in the JSON file, only for that version
(`GivenOut`, `Recorded`), or the answer "not modified" would bless an old file.

**`YatiInstallProofs`**, for every set of versions and contents, every storage,
setting and set of faults, with loss of power at every step: `TypeCorrect`;
`NothingRemovedTooEarly` (`Spec => ReadyBeforeRemoval`) from `Gathered`: once
the contents are collected, each one that is still to be installed is whole in
a placeholder, or in the storage already; `NewerVersionsStay`
(`Spec => NoDowngrade`) from `Compared`, which carries the result of the version test to the removal; `ListedVersionsAreWhole`
and `SuccessMeansInstalled` (`Spec => []ListedIsWhole`, `[]SuccessIsInstalled`)
from `InstallInv`, whose part `Emptied` says that a content is deleted to be
registered again only when no version is listed any more, and that memory and
disk differ only between a `Set` or a removal and its commit.

**`TitleInfoProofs`**, for every number of titles, menus and clears:
`TypeCorrect`, inductive together with `Busy` (the reference count is the number
of open menus), and `ResultsStayAlive` (`Spec => []ResultsAlive`), an induction
over who may free what while the main thread reads (`Reading`) and the loader has
a title under way (`Loading`).

**`UsbInstallProofs`**, for every number and size of files and every set of
faults: `OneUserAtATime` (`Spec => []OneUser`) from `UserInv`: the connection
thread ends with the success that starts the install, which no other step
undoes; an install lives under its box; and the destructor says goodbye when
the thread has been joined. `SuccessIsWhole`: `InTime` gives
`Spec => []SuccessIsComplete`. `SuccessIsComplete` speaks of the end; to get
there `CompleteInv` says at every step of an exchange where the script may be.
`HelloInv` shows that an attempt to connect that was given up leaves the script
in a write that nobody reads, so the names that arrive belong to this attempt.
`TalkInv` does the same for opening, reading and closing a file (`OpenTalk`,
`ReadTalk`, `CloseTalk`); its odd case is a file whose close was lost: the next
header is then a read past the end, which succeeds with nothing, and the
install goes on with a file that was never opened, but whose first read cannot
be answered. `FilesInv` adds which blocks have been read. `TypeCorrect` needs no
hypothesis: also with late transfers, what is read is blocks of files that
exist, as the script serves within the file that a header named (`Data_Types`).

Only model-checked: liveness, which is beyond the prover (`Termination`,
`CancelEnds`, `Served`, `BoxCloses`, `MenuCloses`, `CallsReturn`, `Answered`,
`Recovers`, `ExitEnds`, `LeaveEnds`, `InstallEnds`, `EntriesLoad`);
and each property of the table above in the instances its hypothesis leaves
out and a run covers, such as transfers that are cancelled with a source that
fails, or with a decompressor.

## 7. Not modelled

Wording, drawing, logging, progress numbers; byte offsets inside a block.

*Transfer*: thread creation that fails; the single-threaded loop.
*Stream*: what the installer does besides reading; a server that cannot be
started.
*Network file*: two files of one mount that transfer at the same time (they
share `transfer_curl`, and what happens then is up to libcurl), append mode,
HTTP status codes, the requests that list or change directories.
*Downloads*: the synchronous calls on the one `g_curl_single`, uploads and
downloads to memory, `Last-Modified`; the JSON document that four workers
change without a lock (`download.cpp:125`), whose outcome is undefined.
*Installer*: its reader, decompressor and writer threads, which have the design
of the transfer; tickets and keys; several titles in one package.
*USB*: endpoint setup, short packets, the dump protocol, the USB host mode,
errors of `rarfile` that are no `OSError`.
*Titles*: how a title is loaded, an `Init` that fails, mounts of games that use
the cache from a server's thread; `title::Get` on the main thread
(`LoadControlEntry` of `game_menu.cpp:192` and `save_menu.cpp:282`), which
frees nothing and holds no lock that the loader needs to go on.

Most of the repository's lines are not behaviour to model: vendored libraries
(a JSON parser, the FAT file system, Vorbis, QR codes, `save.c`), tables, the
drawing code of some forty menus, and parsers of file formats that run from
top to bottom in one thread. The models keep to the code that several threads,
machines or runs of the program execute together. The components that
`PROJECT.json` marks as not modelled are left out for the reason given there.
