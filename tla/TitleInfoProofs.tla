--------------------------- MODULE TitleInfoProofs ---------------------------
(***************************************************************************)
(* Theorems about TitleInfo, for every set of titles and menus and any     *)
(* number of clears.                                                       *)
(***************************************************************************)
EXTENDS TitleInfo, FiniteSetTheorems, TLAPS

-----------------------------------------------------------------------------
(* Types *)

(* A title is loaded only while there is one to load, a mod's box is open  *)
(* only while a clear is left, and the counter counts the open menus.      *)
Busy ==
    /\ thread = "load" => ids # <<>>
    /\ box \in {"get", "load"} => boxTitle \in Titles
    /\ box = "mod" => clears < MaxClears
    /\ IsFiniteSet(open) /\ g_ref_count = Cardinality(open)

TypeInv == TypeOK /\ Busy

(* Boolean variables that an operator gives their value *)
LEMMA Emptied_Safe ==
    ASSUME Emptied, dangling \in BOOLEAN
    PROVE  /\ m_result' = {} /\ dangling' \in BOOLEAN
           /\ ~dangling /\ held = Nothing => ~dangling'
  BY Zenon DEF Emptied

LEMMA NoRequests == <<>> \in Seq(Titles)
  OBVIOUS

LEMMA Init_Type == Init => TypeInv
  <1> SUFFICES ASSUME Init PROVE TypeInv
    OBVIOUS
  <1>1. IsFiniteSet(open) /\ Cardinality(open) = 0
    BY FS_EmptySet DEF Init
  <1>2. status \in [Entry -> {"None", "Progress", "Loaded"}]
    BY DEF Init
  <1>3. m_ids \in Seq(Titles) /\ ids \in Seq(Titles)
    BY NoRequests DEF Init
  <1>4. clears \in 0 .. MaxClears
    BY TitleInfoAssumption DEF Init
  <1> QED BY <1>1, <1>2, <1>3, <1>4 DEF Init, TypeInv, TypeOK, Busy

(* Closing a menu counts it out, the last one to zero. *)
LEMMA Counting ==
    ASSUME TypeInv
    PROVE  /\ \A m \in Menus \ open : /\ IsFiniteSet(open \cup {m})
                                      /\ Cardinality(open \cup {m}) = g_ref_count + 1
           /\ \A m \in open : /\ IsFiniteSet(open \ {m})
                              /\ g_ref_count \in Nat \ {0}
                              /\ Cardinality(open \ {m}) = g_ref_count - 1
           /\ g_ref_count = 0 <=> open = {}
  <1>1. IsFiniteSet(open) /\ g_ref_count = Cardinality(open) /\ g_ref_count \in Nat
    BY DEF TypeInv, TypeOK, Busy
  <1>2. g_ref_count = 0 <=> open = {}
    BY <1>1, FS_EmptySet
  <1>3. ASSUME NEW m \in Menus \ open
        PROVE  /\ IsFiniteSet(open \cup {m})
               /\ Cardinality(open \cup {m}) = g_ref_count + 1
    BY <1>1, <1>3, FS_AddElement
  <1>4. ASSUME NEW m \in open
        PROVE  /\ IsFiniteSet(open \ {m})
               /\ g_ref_count \in Nat \ {0}
               /\ Cardinality(open \ {m}) = g_ref_count - 1
    BY <1>1, <1>2, <1>4, FS_RemoveElement
  <1> QED BY <1>2, <1>3, <1>4

LEMMA User_Type == TypeInv /\ User => TypeInv'
  <1> SUFFICES ASSUME TypeInv, User PROVE TypeInv'
    OBVIOUS
  <1> USE TitleInfoAssumption DEF TypeInv, TypeOK, Busy, UserFrame, dataVars,
          threadVars, menuVars, readVars, boxVars
  <1>1. ASSUME NEW m \in Menus, Open(m) PROVE TypeInv'
    <2>1. /\ m \in Menus \ open
          /\ open' = open \cup {m} /\ g_ref_count' = g_ref_count + 1
      BY <1>1 DEF Open
    <2>2. IsFiniteSet(open') /\ Cardinality(open') = g_ref_count'
      BY <2>1, Counting
    <2>3. m_running' \in BOOLEAN /\ thread' \in {"none", "wait", "swap", "next", "load", "ended"}
      BY <1>1 DEF Open
    <2>4. /\ thread' = "load" => ids' # <<>>
          /\ UNCHANGED <<box, boxTitle, clears>>
      BY <1>1 DEF Open
    <2>5. TypeOK'
      BY <1>1, <2>1, <2>3 DEF Open
    <2> QED BY <2>2, <2>4, <2>5
  <1>2. ASSUME NEW m \in Menus \cup {"other"}, Show(m) PROVE TypeInv'
    BY <1>2 DEF Show
  <1>3. CASE Close
    <2>1. Unasked(shown) \in [Entry -> {"None", "Progress", "Loaded"}]
      BY DEF Unasked
    <2>2. /\ shown \in open
          /\ open' = open \ {shown} /\ g_ref_count' = g_ref_count - 1
      BY <1>3 DEF Close
    <2>3. IsFiniteSet(open') /\ Cardinality(open') = g_ref_count' /\ g_ref_count' \in Nat
      BY <2>2, Counting
    <2> QED BY <1>3, <2>1, <2>3 DEF Close, ToldToStop
  <1>4. CASE DeleteCache
    BY <1>4 DEF DeleteCache, Emptied
  <1>5. CASE StartBox
    <2>1. shown \in open => Listed[shown] \subseteq Titles
      OBVIOUS
    <2> QED BY <1>5, <2>1 DEF StartBox
  <1> QED BY <1>1, <1>2, <1>3, <1>4, <1>5 DEF User

LEMMA Draw_Type == TypeInv /\ (\E m \in Menus : Draw(m)) => TypeInv'
  <1> SUFFICES ASSUME TypeInv, NEW e \in Entry, Ask(e) \/ Look(e) PROVE TypeInv'
    BY DEF Draw
  <1> USE DEF TypeInv, TypeOK, Busy, dataVars, threadVars, menuVars, readVars, boxVars
  <1>1. e[2] \in Titles
    BY DEF Entry
  <1>2. CASE Ask(e)
    <2>1. m_uevent' \in BOOLEAN
      BY <1>2 DEF Ask, SignalStays
    <2>2. m_ids' \in Seq(Titles)
      <3>1. m_ids' = m_ids \/ m_ids' = Append(m_ids, e[2])
        BY <1>2, Zenon DEF Ask
      <3> QED BY <1>1, <3>1
    <2>3. status' \in [Entry -> {"None", "Progress", "Loaded"}]
      BY <1>2 DEF Ask
    <2> QED BY <1>2, <2>1, <2>2, <2>3 DEF Ask
  <1>3. CASE Look(e)
    BY <1>3 DEF Look
  <1> QED BY <1>2, <1>3

LEMMA Main_Type == TypeInv /\ (Joined \/ Update \/ ReadResult) => TypeInv'
  <1> SUFFICES ASSUME TypeInv, Joined \/ Update \/ ReadResult PROVE TypeInv'
    OBVIOUS
  <1> USE DEF TypeInv, TypeOK, Busy, dataVars, threadVars, menuVars, readVars, boxVars
  <1>1. CASE Joined
    <2>1. m_result' = {} /\ dangling' \in BOOLEAN
      BY <1>1, Emptied_Safe DEF Joined
    <2> QED BY <1>1, <2>1, NoRequests DEF Joined
  <1>2. CASE Update
    <2>1. Unasked(shown) \in [Entry -> {"None", "Progress", "Loaded"}]
      BY DEF Unasked
    <2>2. m_dirty' \in BOOLEAN
      BY <1>2 DEF Update
    <2>3. status' = Unasked(shown)
      BY <1>2 DEF Update, Rescan
    <2>4. UNCHANGED <<g_ref_count, dataVars, threadVars, main, open, shown,
                      readVars, boxVars, clears>>
      BY <1>2 DEF Update
    <2> QED BY <2>1, <2>2, <2>3, <2>4
  <1>3. CASE ReadResult
    <2>1. status' \in [Entry -> {"None", "Progress", "Loaded"}]
      BY <1>3 DEF ReadResult
    <2> QED BY <1>3, <2>1 DEF ReadResult
  <1> QED BY <1>1, <1>2, <1>3

LEMMA Loader_Type == TypeInv /\ Loader => TypeInv'
  <1> SUFFICES ASSUME TypeInv, Loader PROVE TypeInv'
    OBVIOUS
  <1> USE DEF TypeInv, TypeOK, Busy, dataVars, threadVars, menuVars, readVars, boxVars
  <1>1. ids # <<>> => Head(ids) \in Titles /\ Tail(ids) \in Seq(Titles)
    OBVIOUS
  <1>2. CASE WaitEnds
    <2>1. m_uevent' \in BOOLEAN /\ thread' \in {"swap", "wait", "ended"}
      BY <1>2 DEF WaitEnds
    <2> QED BY <1>2, <2>1 DEF WaitEnds
  <1>3. CASE Swap
    BY <1>3, NoRequests DEF Swap
  <1>4. CASE NextTitle
    <2>1. /\ ids' \in Seq(Titles) /\ thread' \in {"next", "load", "wait", "ended"}
          /\ thread' = "load" => ids' # <<>>
      BY <1>1, <1>4 DEF NextTitle
    <2> QED BY <1>4, <2>1 DEF NextTitle
  <1>5. CASE Load
    BY <1>1, <1>5 DEF Load, Inserted, Grown
  <1> QED BY <1>2, <1>3, <1>4, <1>5 DEF Loader

LEMMA Box_Type == TypeInv /\ Box => TypeInv'
  <1> SUFFICES ASSUME TypeInv, Box PROVE TypeInv'
    OBVIOUS
  <1> USE DEF TypeInv, TypeOK, Busy, dataVars, threadVars, menuVars, readVars, boxVars
  <1>1. EntryLoaded => status' \in [Entry -> {"None", "Progress", "Loaded"}]
    BY DEF EntryLoaded
  <1>2. CASE BoxGet
    BY <1>1, <1>2 DEF BoxGet, Ended, EntryLoaded
  <1>3. CASE BoxLoad
    BY <1>1, <1>3 DEF BoxLoad, Ended, EntryLoaded, Inserted, Grown
  <1>4. CASE BoxClears
    <2>1. m_result' \subseteq Titles /\ dangling' \in BOOLEAN
      BY <1>4, Emptied_Safe DEF BoxClears
    <2>2. clears' \in 0 .. MaxClears
      BY <1>4, TitleInfoAssumption DEF BoxClears
    <2> QED BY <1>4, <2>1, <2>2 DEF BoxClears, Ended
  <1> QED BY <1>2, <1>3, <1>4 DEF Box

LEMMA Next_Type == TypeInv /\ [Next]_vars => TypeInv'
  <1>1. TypeInv /\ UNCHANGED vars => TypeInv'
    BY DEF TypeInv, TypeOK, Busy, vars, dataVars, threadVars, menuVars, readVars, boxVars
  <1> QED BY <1>1, User_Type, Draw_Type, Main_Type, Loader_Type, Box_Type DEF Next

LEMMA TypeInvariant == Spec => []TypeInv
  BY Init_Type, Next_Type, PTL DEF Spec

(* Every variable stays within its type, the bounded queue of menus too.   *)
THEOREM TypeCorrect == Spec => []TypeOK
  BY TypeInvariant, PTL DEF TypeInv

-----------------------------------------------------------------------------
(* Who may use the results *)

(* A mod is installed while a menu that shows no titles is in front: a     *)
(* Clear of the box's thread in the middle of a read is what this excludes *)
(* (it happens when one may be installed from a menu that does).           *)
ModsFromElsewhere == ModsFrom \subseteq {"other"}

(* While the main thread reads a result it draws the menu of its entry,    *)
(* and only it could bring another one in front.                           *)
Reading ==
    /\ main = "read" <=> held # Nothing
    /\ held # Nothing => shown = held[1] /\ held \in Entry /\ held[2] \in m_result
    /\ box = "mod" => shown = "other"
    /\ ~dangling

(* The loader lives as long as a menu does. *)
Loading ==
    /\ main = "exit" => open = {}
    /\ open # {} => m_running
    /\ m_running => thread \notin {"none", "ended"}

LEMMA Next_Reading ==
    ModsFromElsewhere /\ TypeInv /\ Reading /\ [Next]_vars => Reading'
  <1> SUFFICES ASSUME ModsFromElsewhere, TypeInv, Reading, [Next]_vars PROVE Reading'
    OBVIOUS
  <1> USE DEF Reading, UserFrame, dataVars, threadVars, menuVars, readVars, boxVars
  <1>1. "other" \notin Menus /\ \A e \in Entry : e # Nothing /\ e[1] # "other"
    BY TitleInfoAssumption DEF Entry, Nothing
  <1>2. CASE User
    <2>1. CASE (\E m \in Menus : Open(m)) \/ (\E m \in Menus \cup {"other"} : Show(m))
      BY <2>1 DEF Open, Show
    <2>2. CASE Close
      BY <2>2 DEF Close
    <2>3. CASE DeleteCache
      <3>1. ~dangling'
        BY <2>3, Emptied_Safe DEF DeleteCache, TypeInv, TypeOK
      <3> QED BY <2>3, <3>1 DEF DeleteCache
    <2>4. CASE StartBox
      BY <2>4 DEF StartBox, ModsFromElsewhere
    <2> QED BY <1>2, <2>1, <2>2, <2>3, <2>4 DEF User
  <1>3. ASSUME NEW e \in Entry, Ask(e) \/ Look(e) PROVE Reading'
    BY <1>1, <1>3 DEF Ask, Look
  <1>4. CASE Update \/ ReadResult
    BY <1>4 DEF Update, ReadResult
  <1>5. CASE Joined
    <2>1. ~dangling'
      BY <1>5, Emptied_Safe DEF Joined, TypeInv, TypeOK
    <2> QED BY <1>5, <2>1 DEF Joined
  <1>6. CASE Loader
    BY <1>6 DEF Loader, WaitEnds, Swap, NextTitle, Load, Inserted, Grown
  <1>7. CASE Box
    <2>1. box = "mod" => held = Nothing
      BY <1>1
    <2>2. CASE BoxGet \/ BoxLoad
      BY <2>2 DEF BoxGet, BoxLoad, Ended, EntryLoaded, Inserted, Grown
    <2>3. CASE BoxClears
      <3>1. ~dangling' /\ held = Nothing
        BY <2>1, <2>3, Emptied_Safe DEF BoxClears, TypeInv, TypeOK
      <3> QED BY <2>3, <3>1 DEF BoxClears, Ended
    <2> QED BY <1>7, <2>2, <2>3 DEF Box
  <1>8. CASE UNCHANGED vars
    BY <1>8 DEF vars
  <1> QED BY <1>2, <1>3, <1>4, <1>5, <1>6, <1>7, <1>8 DEF Next, Draw

LEMMA Next_Loading == TypeInv /\ Loading /\ [Next]_vars => Loading'
  <1> SUFFICES ASSUME TypeInv, Loading, [Next]_vars PROVE Loading'
    OBVIOUS
  <1> USE DEF Loading, UserFrame, dataVars, threadVars, menuVars, readVars, boxVars
  <1>1. CASE User
    <2>1. ASSUME NEW m \in Menus, Open(m) PROVE Loading'
      BY <2>1, Counting DEF Open
    <2>2. CASE Close
      <3>1. shown \in open /\ open' = open \ {shown} /\ UNCHANGED thread
        BY <2>2 DEF Close
      <3>2. CASE LastClose
        <4>1. open' = {}
          <5>1. IsFiniteSet(open') /\ Cardinality(open') = 0
            BY <3>1, <3>2, Counting DEF LastClose
          <5> QED BY <5>1, FS_EmptySet
        <4> QED BY <2>2, <3>2, <4>1 DEF Close, ToldToStop
      <3>3. CASE ~LastClose
        BY <2>2, <3>1, <3>3 DEF Close
      <3> QED BY <3>2, <3>3
    <2>3. CASE (\E m \in Menus \cup {"other"} : Show(m)) \/ DeleteCache \/ StartBox
      BY <2>3 DEF Show, DeleteCache, StartBox
    <2> QED BY <1>1, <2>1, <2>2, <2>3 DEF User
  <1>2. ASSUME NEW e \in Entry, Ask(e) \/ Look(e) PROVE Loading'
    BY <1>2 DEF Ask, Look
  <1>3. CASE Joined \/ Update \/ ReadResult
    BY <1>3 DEF Joined, Update, ReadResult
  <1>4. CASE Loader
    BY <1>4 DEF Loader, WaitEnds, Swap, NextTitle, Load
  <1>5. CASE Box
    BY <1>5 DEF Box, BoxGet, BoxLoad, BoxClears, EntryLoaded
  <1>6. CASE UNCHANGED vars
    BY <1>6 DEF vars
  <1> QED BY <1>1, <1>2, <1>3, <1>4, <1>5, <1>6 DEF Next, Draw

(* Nobody uses what was freed, in whatever order the main thread, the      *)
(* loader and the boxes run: no clear falls into a read, and the loader    *)
(* ends only when no menu is left.                                         *)
THEOREM ResultsStayAlive ==
    ASSUME ModsFromElsewhere
    PROVE  Spec => []ResultsAlive
  <1>1. Init => Reading /\ Loading
    BY DEF Init, Reading, Loading
  <1>2. TypeInv /\ Reading /\ Loading /\ [Next]_vars => Reading' /\ Loading'
    BY Next_Reading, Next_Loading
  <1>3. Reading /\ Loading => ResultsAlive
    BY DEF Reading, Loading, ResultsAlive
  <1> QED BY <1>1, <1>2, <1>3, TypeInvariant, PTL DEF Spec

=============================================================================
