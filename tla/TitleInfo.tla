------------------------------- MODULE TitleInfo -------------------------------
(***************************************************************************)
(* The names and icons of the installed titles: the loader thread and its  *)
(* results in source/title_info.cpp, and those who use it: the menus that  *)
(* show titles (source/ui/menus/game_menu.cpp, save_menu.cpp), the threads *)
(* of their progress boxes, and source/msp.cpp, which clears the results   *)
(* when it has installed a mod.                                            *)
(*                                                                         *)
(* GetAsync returns a pointer that the caller reads when all locks are     *)
(* given back; a result is freed only with all others.  m_mutex_id and     *)
(* m_mutex_result are held for a moment, so what happens under them is one *)
(* step; g_mutex is held through a Get and through Exit's wait.            *)
(***************************************************************************)
EXTENDS Naturals, Sequences, FiniteSets

CONSTANTS
    Titles,
    Menus,           (* the menus that show titles                         *)
    Listed,          (* the titles that each of them lists                 *)
    MayClear,        (* those with "Delete title cache"                    *)
    ModsFrom,        (* the menus a mod may be installed from; "other"     *)
                     (* stands for all that show no titles                 *)
    MaxClears        (* bound: the results are cleared so many times       *)

ASSUME TitleInfoAssumption ==
    /\ "other" \notin Menus /\ "none" \notin Titles
    /\ Listed \in [Menus -> SUBSET Titles]
    /\ MayClear \subseteq Menus
    /\ ModsFrom \subseteq Menus \cup {"other"}
    /\ MaxClears \in Nat

VARIABLES
    g_ref_count,
    m_running, m_uevent,
    m_ids,           (* the titles that were asked for                     *)
    m_result,        (* the titles that were loaded                        *)
    thread,          (* where the loader thread is                         *)
    ids,             (* what it took from m_ids, the head being loaded     *)
    main,            (* where the main thread is                           *)
    open, shown,     (* the menus that live, the one that is drawn         *)
    status,          (* NacpLoadStatus of the entries of each menu; Loaded *)
                     (* stands for Error as well                           *)
    m_dirty,         (* the menu that is drawn will scan again             *)
    held,            (* the entry whose result the main thread reads       *)
    dangling,        (* that result has been freed                         *)
    box, boxTitle,   (* the thread of a progress box, the title it gets    *)
    clears

dataVars == <<m_running, m_uevent, m_ids, m_result>>
threadVars == <<thread, ids>>
menuVars == <<open, shown, status, m_dirty>>
readVars == <<held, dangling>>
boxVars == <<box, boxTitle>>
vars == <<g_ref_count, dataVars, threadVars, main, menuVars, readVars,
          boxVars, clears>>

Entry == {e \in Menus \X Titles : e[2] \in Listed[e[1]]}

Nothing == <<"other", "none">>

TypeOK ==
    /\ g_ref_count \in Nat
    /\ m_running \in BOOLEAN /\ m_uevent \in BOOLEAN
    /\ m_ids \in Seq(Titles)
    /\ m_result \subseteq Titles
    /\ thread \in {"none", "wait", "swap", "next", "load", "ended"}
    /\ ids \in Seq(Titles)
    /\ main \in {"frame", "read", "exit"}
    /\ open \subseteq Menus
    /\ shown \in open \cup {"other"}
    /\ status \in [Entry -> {"None", "Progress", "Loaded"}]
    /\ m_dirty \in BOOLEAN
    /\ held \in Entry \cup {Nothing}
    /\ dangling \in BOOLEAN
    /\ box \in {"none", "get", "load", "mod"}
    /\ boxTitle \in Titles \cup {"none"}
    /\ clears \in 0 .. MaxClears

Init ==
    /\ g_ref_count = 0
    /\ m_running = FALSE /\ m_uevent = FALSE
    /\ m_ids = <<>> /\ m_result = {}
    /\ thread = "none" /\ ids = <<>>
    /\ main = "frame"
    /\ open = {} /\ shown = "other" /\ m_dirty = FALSE
    /\ status = [e \in Entry |-> "None"]
    /\ held = Nothing /\ dangling = FALSE
    /\ box = "none" /\ boxTitle = "none"
    /\ clears = 0

(* g_mutex: a box's thread may keep it; none is there when the last menu   *)
(* goes, for which the main thread keeps it.                               *)
MainMayLock == box # "load"

(* m_result.clear() *)
Emptied ==
    /\ m_result' = {}
    /\ dangling' = (dangling \/ held # Nothing)

(* Mutant: the results lie in the vector, which moves them when it grows.  *)
Moved == dangling \/ held # Nothing

(* m_result.emplace_back: the vector holds pointers to the results.        *)
Grown == dangling

Inserted(t) ==
    /\ m_result' = m_result \cup {t}
    /\ dangling' = Grown

-----------------------------------------------------------------------------
(* The main thread: menus come and go *)

Unasked(m) == [e \in Entry |-> IF e[1] = m THEN "None" ELSE status[e]]

(* A frame in which the user may do something: no box is on top, and the   *)
(* menu has been updated.                                                  *)
UserFrame == main = "frame" /\ box = "none" /\ ~m_dirty

(* Init, in the constructor of a menu; the first one starts the thread.    *)
Open(m) ==
    /\ UserFrame
    /\ m \notin open
    /\ g_ref_count' = g_ref_count + 1
    /\ IF g_ref_count = 0
       THEN m_running' = TRUE /\ thread' = "wait"
       ELSE UNCHANGED <<m_running, thread>>
    /\ open' = open \cup {m}
    /\ shown' = m
    /\ UNCHANGED <<m_uevent, m_ids, m_result, ids, main, status, m_dirty,
                   readVars, boxVars, clears>>

(* Another menu is put in front, or a tab chosen. *)
Show(m) ==
    /\ UserFrame
    /\ m \in (open \cup {"other"}) \ {shown}
    /\ shown' = m
    /\ UNCHANGED <<g_ref_count, dataVars, threadVars, main, open, status,
                   m_dirty, readVars, boxVars, clears>>

(* Mutant: the data goes with the first menu that is closed. *)
AnyClose == TRUE

LastClose == g_ref_count = 1

(* Mutant: the thread is woken, but not told to stop.                      *)
StillRunning == m_running

ToldToStop == FALSE

(* Exit, in its destructor; the last one stops the thread (Close) and, with *)
(* g_mutex held, waits for it.                                             *)
Close ==
    /\ UserFrame
    /\ shown \in open
    /\ open' = open \ {shown}
    /\ shown' = "other"
    /\ status' = Unasked(shown)
    /\ g_ref_count' = g_ref_count - 1
    /\ IF LastClose THEN m_running' = ToldToStop /\ m_uevent' = TRUE
                         /\ main' = "exit"
       ELSE UNCHANGED <<m_running, m_uevent, main>>
    /\ UNCHANGED <<m_ids, m_result, threadVars, m_dirty, readVars, boxVars,
                   clears>>

(* g_thread_data.reset() *)
Joined ==
    /\ main = "exit" /\ thread = "ended"
    /\ thread' = "none"
    /\ ids' = <<>>
    /\ m_uevent' = FALSE /\ m_ids' = <<>>
    /\ Emptied
    /\ main' = "frame"
    /\ UNCHANGED <<g_ref_count, m_running, menuVars, held, boxVars, clears>>

-----------------------------------------------------------------------------
(* The main thread: drawing an entry *)

(* Mutant: a thread that is not asleep is not signalled. *)
WakesSleeper == m_uevent \/ thread = "wait"

SignalStays == TRUE

(* PushAsync for an entry that was not asked for. *)
Ask(e) ==
    /\ main = "frame" /\ MainMayLock
    /\ shown = e[1] /\ status[e] = "None"
    /\ status' = [status EXCEPT ![e] = "Progress"]
    /\ IF e[2] \notin m_result /\ \A i \in DOMAIN m_ids : m_ids[i] # e[2]
       THEN m_ids' = Append(m_ids, e[2]) /\ m_uevent' = SignalStays
       ELSE UNCHANGED <<m_ids, m_uevent>>
    /\ UNCHANGED <<g_ref_count, m_running, m_result, threadVars, main, open,
                   shown, m_dirty, readVars, boxVars, clears>>

(* GetAsync for one that was, when there is a result (its image, which may *)
(* wait for a later frame, is read the same way) ...                       *)
Look(e) ==
    /\ main = "frame" /\ MainMayLock
    /\ shown = e[1] /\ status[e] = "Progress"
    /\ e[2] \in m_result
    /\ held' = e
    /\ main' = "read"
    /\ UNCHANGED <<g_ref_count, dataVars, threadVars, menuVars, dangling,
                   boxVars, clears>>

(* ... which LoadResultIntoEntry reads. *)
ReadResult ==
    /\ main = "read"
    /\ status' = [status EXCEPT ![held] = "Loaded"]
    /\ held' = Nothing
    /\ main' = "frame"
    /\ UNCHANGED <<g_ref_count, dataVars, threadVars, open, shown, m_dirty,
                   dangling, boxVars, clears>>

(* Mutant: the entries are left as they are. *)
NoRescan(m) == status

Rescan(m) == Unasked(m)

(* The menu that deletes the cache is the only one left on top, and scans  *)
(* the titles again in its next Update.  (It also does when a title was    *)
(* installed or a game card put in, which is left out.)                    *)
DeleteCache ==
    /\ UserFrame
    /\ shown \in MayClear
    /\ clears < MaxClears /\ clears' = clears + 1
    /\ Emptied
    /\ m_dirty' = TRUE
    /\ UNCHANGED <<g_ref_count, m_running, m_uevent, m_ids, threadVars, main,
                   open, shown, status, held, boxVars>>

Update ==
    /\ main = "frame" /\ m_dirty
    /\ m_dirty' = FALSE
    /\ status' = Rescan(shown)
    /\ UNCHANGED <<g_ref_count, dataVars, threadVars, main, open, shown,
                   readVars, boxVars, clears>>

-----------------------------------------------------------------------------
(* The loader thread *)

(* The wait times out after three seconds; then it only looks at the flag  *)
(* and waits again.                                                        *)
WaitEnds ==
    /\ thread = "wait"
    /\ \/ /\ m_uevent
          /\ m_uevent' = FALSE
          /\ thread' = IF m_running THEN "swap" ELSE "ended"
       \/ /\ ~m_uevent
          /\ thread' = IF m_running THEN "wait" ELSE "ended"
          /\ UNCHANGED m_uevent
    /\ UNCHANGED <<g_ref_count, m_running, m_ids, m_result, ids, main,
                   menuVars, readVars, boxVars, clears>>

Swap ==
    /\ thread = "swap"
    /\ ids' = m_ids
    /\ m_ids' = <<>>
    /\ thread' = "next"
    /\ UNCHANGED <<g_ref_count, m_running, m_uevent, m_result, main, menuVars,
                   readVars, boxVars, clears>>

(* One title of the list: Get finds it among the results, or loads it.     *)
NextTitle ==
    /\ thread = "next"
    /\ \/ /\ ids # <<>> /\ m_running /\ Head(ids) \in m_result
          /\ ids' = Tail(ids)
          /\ UNCHANGED thread
       \/ /\ ids # <<>> /\ m_running /\ Head(ids) \notin m_result
          /\ thread' = "load"
          /\ UNCHANGED ids
       \/ /\ ~m_running
          /\ thread' = "ended"
          /\ UNCHANGED ids
       \/ /\ ids = <<>> /\ m_running
          /\ thread' = "wait"
          /\ UNCHANGED ids
    /\ UNCHANGED <<g_ref_count, dataVars, main, menuVars, readVars, boxVars,
                   clears>>

(* Loaded, without any lock, and inserted: also when somebody else has     *)
(* done the same meanwhile, or the results were cleared.                   *)
Load ==
    /\ thread = "load"
    /\ Inserted(Head(ids))
    /\ ids' = Tail(ids)
    /\ thread' = "next"
    /\ UNCHANGED <<g_ref_count, m_running, m_uevent, m_ids, main, menuVars,
                   held, boxVars, clears>>

-----------------------------------------------------------------------------
(* The thread of a progress box.  The main thread goes on drawing what is  *)
(* below the box.                                                          *)

(* A backup wants the name of its title, if the menu has none yet; a mod   *)
(* is installed.                                                           *)
StartBox ==
    /\ UserFrame
    /\ \/ /\ shown \in open
          /\ box' = "get"
          /\ \E t \in Listed[shown] :
                status[<<shown, t>>] # "Loaded" /\ boxTitle' = t
       \/ /\ shown \in ModsFrom /\ clears < MaxClears
          /\ box' = "mod"
          /\ UNCHANGED boxTitle
    /\ UNCHANGED <<g_ref_count, dataVars, threadVars, main, menuVars,
                   readVars, clears>>

Ended == box' = "none" /\ boxTitle' = "none"

EntryLoaded ==
    /\ status' = [status EXCEPT ![<<shown, boxTitle>>] = "Loaded"]
    /\ UNCHANGED <<open, shown, m_dirty>>

(* LoadControlEntry: Get, with g_mutex held to its end, and the result     *)
(* copied into the entry at once: nobody clears while such a box is there. *)
BoxGet ==
    /\ box = "get"
    /\ IF boxTitle \in m_result THEN Ended /\ EntryLoaded
       ELSE box' = "load" /\ UNCHANGED <<boxTitle, menuVars>>
    /\ UNCHANGED <<g_ref_count, dataVars, threadVars, main, readVars, clears>>

BoxLoad ==
    /\ box = "load"
    /\ Inserted(boxTitle)
    /\ Ended /\ EntryLoaded
    /\ UNCHANGED <<g_ref_count, m_running, m_uevent, m_ids, threadVars, main,
                   held, clears>>

(* msp::Install ends with Clear, which does nothing when no menu has the   *)
(* titles open.                                                            *)
BoxClears ==
    /\ box = "mod"
    /\ IF thread = "none" THEN UNCHANGED <<m_result, dangling>> ELSE Emptied
    /\ clears' = clears + 1
    /\ Ended
    /\ UNCHANGED <<g_ref_count, m_running, m_uevent, m_ids, threadVars, main,
                   menuVars, held>>

-----------------------------------------------------------------------------

Draw(m) == \E e \in Entry : e[1] = m /\ (Ask(e) \/ Look(e))

Loader == WaitEnds \/ Swap \/ NextTitle \/ Load

Box == BoxGet \/ BoxLoad \/ BoxClears

User == (\E m \in Menus : Open(m)) \/ (\E m \in Menus \cup {"other"} : Show(m))
        \/ Close \/ DeleteCache \/ StartBox

Next ==
    \/ User \/ Joined \/ Update \/ ReadResult \/ Loader \/ Box
    \/ \E m \in Menus : Draw(m)

Spec == Init /\ [][Next]_vars

(* The threads are scheduled.  A menu that is shown is drawn, with all its *)
(* entries, before the user can put another one in front: so an entry of   *)
(* a menu that is shown again and again is drawn again and again.          *)
Fairness ==
    /\ WF_vars(Loader) /\ WF_vars(Box) /\ WF_vars(Joined)
    /\ WF_vars(ReadResult) /\ WF_vars(Update)
    /\ \A m \in Menus : SF_vars(Draw(m))

FairSpec == Spec /\ Fairness

-----------------------------------------------------------------------------

(* Nobody uses what was freed: the main thread a result it has a pointer   *)
(* to, which the loader, the box and Clear may touch once the lock is      *)
(* given back; the loader its ThreadData, which goes with the last menu.   *)
ResultsAlive ==
    /\ held # Nothing => ~dangling /\ held[2] \in m_result
    /\ open # {} => thread \notin {"none", "ended"} /\ m_running

(* What a menu asks for after the last Clear, and what the menu that did   *)
(* the Clear had, is loaded if that menu lives and is shown again and      *)
(* again: the loader misses no request, and a Clear in the middle of a     *)
(* load, or a title that two load at once, lose nothing.                   *)
Wanted(e) ==
    /\ clears = MaxClears /\ box # "mod"
    /\ status[e] = "None" \/ (m_dirty /\ e[1] = shown)

EntriesLoad ==
    \A e \in Entry :
        []<>(shown = e[1]) =>
            (Wanted(e) ~> status[e] = "Loaded" \/ e[1] \notin open)

(* Closing the last menu does not hang: nothing the thread waits for is    *)
(* held by the one who waits for it.                                       *)
ExitEnds == main = "exit" ~> main = "frame"
=============================================================================
