---------------------------- MODULE PushPullProofs ----------------------------
EXTENDS PushPull, TLAPS

(***************************************************************************)
(* Runs of consecutive blocks                                              *)
(***************************************************************************)

(* From(n, k) is the sequence of the k blocks after block n. *)
LEMMA FromIsSeq ==
    ASSUME NEW n \in Nat, NEW k \in Nat
    PROVE  /\ From(n, k) \in Seq(n + 1 .. n + k)
           /\ From(n, k) \in Seq(Nat)
           /\ Len(From(n, k)) = k
           /\ \A i \in 1 .. k : From(n, k)[i] = n + i
  BY DEF From

(* Concatenation, by a name: the backends do not match a pattern that      *)
(* contains \o.                                                            *)
Cat(s, t) == s \o t

(* Two adjacent runs make one. *)
LEMMA FromConcat ==
    ASSUME NEW n \in Nat, NEW a \in Nat, NEW b \in Nat, NEW m \in Nat, m = n + a
    PROVE  Cat(From(n, a), From(m, b)) = From(n, a + b)
  BY FromIsSeq DEF From, Cat

(* The first m blocks of a run, and what is left without them. *)
LEMMA FromSplit ==
    ASSUME NEW n \in Nat, NEW k \in Nat, NEW m \in 0 .. k
    PROVE  /\ SubSeq(From(n, k), 1, m) = From(n, m)
           /\ Rest(From(n, k), m) = From(n + m, k - m)
  BY FromIsSeq DEF From, Rest

(* The empty run. *)
LEMMA FromEmpty == ASSUME NEW n PROVE From(n, 0) = <<>>
  BY DEF From

(* A run of blocks that the file has. *)
LEMMA FromType ==
    ASSUME NEW n \in Nat, NEW k \in Nat, n + k <= Size
    PROVE  From(n, k) \in Seq(1 .. Size)
  BY PushPullAssumption DEF From

(* Cutting a sequence in two ... *)
LEMMA Cut ==
    ASSUME NEW S, NEW s \in Seq(S), NEW n \in 0 .. Len(s)
    PROVE  /\ SubSeq(s, 1, n) \in Seq(S) /\ Len(SubSeq(s, 1, n)) = n
           /\ Rest(s, n) \in Seq(S) /\ Len(Rest(s, n)) = Len(s) - n
  BY DEF Rest

(* ... and putting two together. *)
LEMMA ConcatType ==
    ASSUME NEW S, NEW s \in Seq(S), NEW t \in Seq(S)
    PROVE  s \o t \in Seq(S) /\ Len(s \o t) = Len(s) + Len(t)
  OBVIOUS

-----------------------------------------------------------------------------

Deleting == main \in {"cancel", "resume", "join"}
Pulling  == main \in {"pull", "pull_wait"}

(* Which of the two threads may be where, and when there is a transfer. *)
Control ==
    /\ mode = "closed" => main = "idle" /\ curl = "none" /\ off = 0 /\ data = <<>>
    /\ Pulling => mode = "read" /\ curl # "none"
    /\ main \in {"push", "push_wait"} => mode = "write" /\ curl # "none"
    /\ Deleting => curl # "none" /\ (mode = "write" => closing)
    /\ main = "create" => curl = "none"
    /\ curl \in {"deliver", "deliver_wait"} => mode = "read" /\ pos + chunk <= Size
    /\ main \in {"create", "pull", "pull_wait", "push", "push_wait"} \/ (Deleting /\ ~closing)
        => IF Pulling THEN off + Len(data) + want <= Size ELSE off + want <= Size

(* The first block that no read has delivered yet. *)
Front == IF Pulling THEN off + Len(data) ELSE last_off

Delivered ==
    data = From(IF Pulling THEN off ELSE last_off - Len(data), Len(data))

(* What a read has delivered, what is in the buffer and what is still to   *)
(* come follow each other without a gap, from the position of the read on; *)
(* while the transfer is being deleted only what was delivered counts.     *)
Download ==
    /\ mode = "write" => data = <<>>
    /\ ~Pulling => Len(data) <= last_off
    /\ main = "create" \/ (Deleting /\ ~closing)
        => data = <<>> /\ (mode = "read" => last_off = off)
    /\ mode = "read" /\ curl # "none" /\ ~Deleting =>
        /\ buffer = From(Front, Len(buffer))
        /\ pos = Front + Len(buffer)
        /\ finished => curl = "exited"
    /\ mode = "read" /\ curl \in {"ended", "exited"} /\ res = "ok" => pos = Size
    /\ curl = "exited" => (error <=> res # "ok")
    /\ Delivered

(* What was sent and what is in the buffer follow each other up to the     *)
(* position of the next write, and an upload that ended well sent it all.  *)
Upload ==
    /\ mode = "write" /\ curl = "none" => off = 0 /\ sent = <<>>
    /\ mode = "write" /\ curl # "none" =>
        /\ sent = From(0, Len(sent))
        /\ buffer = From(Len(sent), Len(buffer))
        /\ off = Len(sent) + Len(buffer)
    /\ mode = "write" /\ curl \in {"ended", "exited"} /\ res = "ok" =>
        buffer = <<>> /\ finished

IInv == TypeOK /\ Control /\ Download /\ Upload

-----------------------------------------------------------------------------

(* The initial state satisfies the invariant. *)
LEMMA Init_IInv == Init => IInv
  <1> SUFFICES ASSUME Init PROVE IInv
    OBVIOUS
  <1>0. /\ <<>> \in Seq(1 .. Size) /\ Len(<<>>) = 0
        /\ 0 \in 0 .. Size /\ 0 \in 0 .. CallMax /\ 0 \in 0 .. ChunkMax
        /\ 0 <= MaxBuffer
    BY PushPullAssumption
  <1>1. TypeOK
    <2>1. /\ mode \in {"closed", "read", "write"} /\ main \in MainPc
          /\ curl \in CurlPc /\ res \in {"ok", "fail"}
          /\ {closing, moved, paused, finished, error} \subseteq BOOLEAN
      BY DEF Init, MainPc, CurlPc
    <2>2. /\ {off, last_off, pos} \subseteq 0 .. Size
          /\ want \in 0 .. CallMax /\ chunk \in 0 .. ChunkMax
      BY <1>0 DEF Init
    <2>3. {data, sent, buffer} \subseteq Seq(1 .. Size) /\ Len(buffer) = 0
      BY <1>0 DEF Init
    <2> QED BY <1>0, <2>1, <2>2, <2>3 DEF TypeOK
  <1>2. Control
    BY DEF Init, Control, Pulling, Deleting
  <1>3. Delivered
    <2>1. From(last_off - Len(data), Len(data)) = <<>>
      BY <1>0, FromEmpty DEF Init
    <2> QED BY <2>1 DEF Init, Delivered, Pulling
  <1>4. Download
    BY <1>0, <1>3 DEF Init, Download, Pulling, Deleting
  <1>5. Upload
    BY DEF Init, Upload
  <1> QED BY <1>1, <1>2, <1>4, <1>5 DEF IInv

(* Opening a file. *)
LEMMA Open_IInv ==
    ASSUME IInv, NEW m \in {"read", "write"}, Open(m)
    PROVE  IInv'
  <1> USE DEF IInv
  <1>0. <<>> \in Seq(1 .. Size) /\ Len(<<>>) = 0
    OBVIOUS
  <1>1. TypeOK'
    BY <1>0 DEF Open, TypeOK, callVars, objVars
  <1>2. Control'
    BY DEF Open, Control, Pulling, Deleting, callVars
  <1>3. Download'
    BY DEF Open, Control, Download, Delivered, Pulling, Deleting, callVars, objVars
  <1>4. Upload'
    BY DEF Open, Control, Upload, objVars
  <1> QED BY <1>1, <1>2, <1>3, <1>4

(* Another position. *)
LEMMA Seek_IInv ==
    ASSUME IInv, NEW to \in 0 .. Size, Seek(to)
    PROVE  IInv'
  <1> USE DEF IInv
  <1>1. TypeOK'
    BY DEF Seek, TypeOK, callVars, curlVars, objVars
  <1>2. Control'
    BY PushPullAssumption DEF Seek, TypeOK, Control, Pulling, Deleting, callVars, curlVars
  <1>3. Download'
    BY DEF Seek, Download, Delivered, Front, Pulling, Deleting, callVars, curlVars, objVars
  <1>4. Upload'
    BY DEF Seek, Upload, curlVars, objVars
  <1> QED BY <1>1, <1>2, <1>3, <1>4

(* The start of a read. *)
LEMMA Read_IInv ==
    ASSUME IInv, NEW len \in 1 .. CallMax, Read(len)
    PROVE  IInv'
  <1> USE DEF IInv
  <1>0. /\ <<>> \in Seq(1 .. Size) /\ Len(<<>>) = 0
        /\ off \in 0 .. Size /\ last_off \in 0 .. Size /\ Size \in Nat
        /\ mode = "read" /\ main = "idle"
    BY PushPullAssumption DEF Read, TypeOK
  <1>1. want' \in 0 .. CallMax /\ off + want' <= Size
    BY <1>0, PushPullAssumption DEF Read, Smaller
  <1>2. /\ main' \in {"create", "cancel", "pull"} /\ data' = <<>> /\ last_off' \in 0 .. Size
        /\ main' = "create" <=> curl = "none"
        /\ main' = "pull" => last_off = off
        /\ last_off' = off
        /\ mode' = mode /\ off' = off /\ closing' = closing /\ curl' = curl
        /\ buffer' = buffer /\ UNCHANGED <<curlVars, objVars>>
    BY <1>0 DEF Read, PositionChanged
  <1>3. TypeOK'
    BY <1>0, <1>1, <1>2 DEF TypeOK, MainPc, curlVars, objVars
  <1>4. Control'
    <2>1. off' + want' <= Size /\ off' + Len(data') + want' <= Size
      <3>1. off \in Nat /\ want' \in Nat /\ off + 0 + want' = off + want'
        BY <1>0, <1>1, PushPullAssumption
      <3> QED BY <1>0, <1>1, <1>2, <3>1
    <2>2. /\ Pulling' => main' = "pull"
          /\ Deleting' => main' = "cancel"
          /\ main' \notin {"push", "push_wait"}
      BY <1>2 DEF Pulling, Deleting
    <2> QED BY <1>0, <1>2, <2>1, <2>2 DEF Control, curlVars
  <1>5. Delivered'
    BY <1>0, <1>2, FromEmpty DEF Delivered, Pulling
  <1>6. Download'
    <2>1. Front' = Front \/ main' # "pull"
      BY <1>0, <1>2 DEF Front, Pulling
    <2>2. main' # "pull" => (Deleting' \/ curl' = "none")
      BY <1>2 DEF Deleting
    <2> QED BY <1>0, <1>2, <1>5, <2>1, <2>2 DEF Download, Pulling, Deleting, curlVars, objVars
  <1>7. Upload'
    BY <1>0, <1>2 DEF Upload
  <1> QED BY <1>3, <1>4, <1>6, <1>7

(* The start of a write. *)
LEMMA Write_IInv ==
    ASSUME IInv, NEW len \in 1 .. CallMax, Write(len)
    PROVE  IInv'
  <1> USE DEF IInv
  <1>0. /\ off \in 0 .. Size /\ Size \in Nat /\ mode = "write" /\ main = "idle"
        /\ main' \in {"create", "push"} /\ (main' = "create" <=> curl = "none")
    BY PushPullAssumption DEF Write, TypeOK
  <1>1. want' \in 0 .. CallMax /\ off + want' <= Size
    BY <1>0, PushPullAssumption DEF Write, Smaller
  <1>2. TypeOK'
    BY <1>0, <1>1 DEF Write, TypeOK, MainPc, fileVars, curlVars, objVars
  <1>3. Control'
    BY <1>0, <1>1 DEF Write, Control, Pulling, Deleting, fileVars, curlVars
  <1>4. Download'
    BY <1>0 DEF Write, Download, Delivered, Front, Pulling, Deleting, fileVars, curlVars, objVars
  <1>5. Upload'
    BY <1>0 DEF Write, Upload, fileVars, curlVars, objVars
  <1> QED BY <1>2, <1>3, <1>4, <1>5

(* The creation of a transfer. *)
LEMMA Create_IInv ==
    ASSUME IInv, Create
    PROVE  IInv'
  <1> USE DEF IInv
  <1>0. /\ <<>> \in Seq(1 .. Size) /\ Len(<<>>) = 0
        /\ 0 \in 0 .. CallMax /\ 0 <= MaxBuffer
        /\ off \in 0 .. Size /\ Size \in Nat /\ off + 0 = off /\ want \in Nat
    BY PushPullAssumption DEF TypeOK
  <1>1. /\ main = "create" /\ curl = "none" /\ data = <<>> /\ off + want <= Size
        /\ mode \in {"read", "write"}
        /\ mode = "write" => off = 0 /\ sent = <<>>
        /\ mode = "read" => last_off = off
        /\ UNCHANGED <<mode, off, last_off, data, closing, chunk, sent, res>>
    BY DEF Create, TypeOK, Control, Download, Upload, Pulling, Deleting, fileVars
  <1>2. CASE /\ main' = IF mode = "read" THEN "pull" ELSE "push"
             /\ curl' = "perform" /\ buffer' = <<>>
             /\ finished' = FALSE /\ error' = FALSE
             /\ moved' = FALSE /\ paused' = FALSE
             /\ pos' = off /\ want' = want
    <2>1. TypeOK'
      BY <1>0, <1>1, <1>2 DEF TypeOK, MainPc, CurlPc
    <2>2. Control'
      BY <1>0, <1>1, <1>2 DEF Control, Pulling, Deleting
    <2>3. Delivered'
      BY <1>0, <1>1, <1>2, FromEmpty DEF Delivered, Pulling
    <2>4. ASSUME mode = "read"
          PROVE  /\ buffer' = From(Front', Len(buffer'))
                 /\ pos' = Front' + Len(buffer')
      BY <1>0, <1>1, <1>2, <2>4, FromEmpty DEF Front, Pulling
    <2>5. Download'
      BY <1>0, <1>1, <1>2, <2>3, <2>4 DEF Download, Pulling, Deleting
    <2>6. Upload'
      BY <1>0, <1>1, <1>2, FromEmpty DEF Upload
    <2> QED BY <2>1, <2>2, <2>5, <2>6
  <1>3. CASE /\ main' = "idle" /\ want' = 0
             /\ UNCHANGED <<curl, buffer, objVars, moved, paused, pos>>
    <2>1. TypeOK'
      BY <1>0, <1>1, <1>3 DEF TypeOK, MainPc, objVars
    <2>2. Control'
      BY <1>0, <1>1, <1>3 DEF Control, Pulling, Deleting
    <2>3. Download'
      BY <1>0, <1>1, <1>3 DEF Download, Delivered, Pulling, Deleting, objVars
    <2>4. Upload'
      BY <1>1, <1>3 DEF Upload, objVars
    <2> QED BY <2>1, <2>2, <2>3, <2>4
  <1> QED BY <1>2, <1>3 DEF Create

(* Taking the first n of l consecutive blocks, and adding them to the k    *)
(* blocks before them.                                                     *)
LEMMA Move ==
    ASSUME NEW o \in Nat, NEW k \in Nat, NEW m \in Nat, m = o + k,
           NEW l \in Nat, NEW n \in 0 .. l,
           NEW d, d = From(o, k), NEW b, b = From(m, l)
    PROVE  /\ Cat(d, SubSeq(b, 1, n)) = From(o, k + n)
           /\ Rest(b, n) = From(o + (k + n), l - n)
           /\ Len(Cat(d, SubSeq(b, 1, n))) = k + n
           /\ Len(Rest(b, n)) = l - n
  <1>0. o + k \in Nat /\ n \in Nat /\ l - n \in Nat /\ k + n \in Nat /\ m + n = o + (k + n) /\ o + (k + n) \in Nat
    OBVIOUS
  <1>1. SubSeq(From(m, l), 1, n) = From(m, n)
    BY <1>0, FromSplit
  <1>2. Rest(From(m, l), n) = From(o + (k + n), l - n)
    BY <1>0, FromSplit
  <1>3. Cat(From(o, k), From(m, n)) = From(o, k + n)
    BY <1>0, FromConcat
  <1>4. Len(From(o, k + n)) = k + n /\ Len(From(o + (k + n), l - n)) = l - n
    BY <1>0, FromIsSeq
  <1> QED BY <1>1, <1>2, <1>3, <1>4

(* A read takes blocks from the buffer. *)
LEMMA PullData_IInv ==
    ASSUME IInv, PullData
    PROVE  IInv'
  <1> USE DEF IInv
  <1> DEFINE k == Len(data)
             l == Len(buffer)
  <1>0. /\ main = "pull" /\ mode = "read" /\ curl # "none"
        /\ off \in Nat /\ k \in Nat /\ l \in Nat /\ want \in Nat /\ Size \in Nat
        /\ off + k + want <= Size /\ CallMax \in Nat /\ want <= CallMax
        /\ l <= MaxBuffer /\ MaxBuffer \in Nat /\ pos \in Nat /\ pos <= Size
    BY PushPullAssumption DEF PullData, TypeOK, Control, Pulling
  <1>1. PICK n \in 0 .. l :
          /\ n <= want
          /\ data' = data \o SubSeq(buffer, 1, n)
          /\ buffer' = Rest(buffer, n)
          /\ curl' = WokenCurl
          /\ \/ main' = "idle" /\ want' = 0 /\ off' = off + Len(data') /\ last_off' = off'
             \/ main' = "pull_wait" /\ want' = want - n /\ UNCHANGED <<off, last_off>>
          /\ UNCHANGED <<mode, closing, curlVars, objVars>>
    <2>1. /\ (IF error THEN 0 ELSE Smaller(want, l)) \in 0 .. l
          /\ (IF error THEN 0 ELSE Smaller(want, l)) <= want
      BY <1>0 DEF Smaller
    <2> QED BY <2>1 DEF PullData
  <1>2. /\ data = From(off, k)
        /\ buffer = From(off + k, l)
        /\ pos = off + k + l
        /\ finished => curl = "exited"
    BY <1>0 DEF Download, Delivered, Front, Pulling, Deleting
  <1>3. /\ data' = From(off, k + n) /\ Len(data') = k + n
        /\ buffer' = From(off + (k + n), l - n) /\ Len(buffer') = l - n
    <2> HIDE DEF k, l
    <2>1. off + k \in Nat
      BY <1>0
    <2>2. data' = Cat(data, SubSeq(buffer, 1, n))
      BY <1>1 DEF Cat
    <2>3. Cat(data, SubSeq(buffer, 1, n)) = From(off, k + n)
      BY <1>0, <1>1, <1>2, <2>1, Move
    <2>4. Rest(buffer, n) = From(off + (k + n), l - n)
      BY <1>0, <1>1, <1>2, <2>1, Move
    <2>5. k + n \in Nat /\ l - n \in Nat /\ off + (k + n) \in Nat
      BY <1>0
    <2>6. Len(From(off, k + n)) = k + n /\ Len(From(off + (k + n), l - n)) = l - n
      BY <1>0, <2>5, FromIsSeq
    <2> QED BY <1>1, <2>2, <2>3, <2>4, <2>6
  <1>4. k + n \in Nat /\ off + (k + n) <= Size /\ off + (k + n) \in Nat
        /\ l - n \in Nat /\ l - n <= MaxBuffer /\ off + (k + n) + (l - n) = pos
    <2> HIDE DEF k, l
    <2> QED BY <1>0, <1>1, <1>2
  <1>5. /\ main' \in {"idle", "pull_wait"}
        /\ main' = "idle" => off' = off + (k + n) /\ last_off' = off' /\ want' = 0
        /\ main' = "pull_wait" => off' = off /\ last_off' = last_off /\ want' = want - n
        /\ curl' \in {curl, "deliver"} /\ (curl' # curl => curl = "deliver_wait")
        /\ mode' = "read"
        /\ UNCHANGED <<closing, chunk, moved, paused, pos, sent, res, finished, error>>
    BY <1>0, <1>1, <1>3 DEF WokenCurl, curlVars, objVars
  <1> HIDE DEF k, l
  <1>6. TypeOK'
    <2>1. data' \in Seq(1 .. Size)
      BY <1>0, <1>3, <1>4, FromType
    <2>2. buffer' \in Seq(1 .. Size) /\ Len(buffer') <= MaxBuffer
      BY <1>0, <1>2, <1>3, <1>4, FromType
    <2>3. off' \in 0 .. Size /\ last_off' \in 0 .. Size /\ want' \in 0 .. CallMax
      BY <1>0, <1>1, <1>4, <1>5 DEF TypeOK
    <2> QED BY <1>5, <2>1, <2>2, <2>3 DEF TypeOK, MainPc, CurlPc
  <1>7. Control'
    <2>1. IF Pulling' THEN off' + Len(data') + want' <= Size ELSE off' + want' <= Size
      BY <1>0, <1>1, <1>3, <1>4, <1>5 DEF Pulling
    <2> QED BY <1>0, <1>5, <2>1 DEF Control, Pulling, Deleting
  <1>8. Delivered'
    <2>1. main' = "idle" => last_off' - Len(data') = off
      BY <1>0, <1>3, <1>4, <1>5
    <2> QED BY <1>3, <1>5, <2>1 DEF Delivered, Pulling
  <1>9. Download'
    <2>1. Front' = off + (k + n)
      BY <1>0, <1>1, <1>3, <1>4, <1>5 DEF Front, Pulling
    <2>2. ~Pulling' => Len(data') <= last_off'
      BY <1>0, <1>1, <1>3, <1>4, <1>5 DEF Pulling
    <2>3. /\ buffer' = From(Front', Len(buffer'))
          /\ pos' = Front' + Len(buffer')
      BY <1>3, <1>4, <1>5, <2>1
    <2>4. finished' => curl' = "exited"
      BY <1>2, <1>5
    <2> QED BY <1>0, <1>5, <1>8, <2>2, <2>3, <2>4 DEF Download, Pulling, Deleting
  <1>10. Upload'
    BY <1>5 DEF Upload
  <1> QED BY <1>6, <1>7, <1>9, <1>10

(* A write puts blocks into the buffer. *)
LEMMA PushData_IInv ==
    ASSUME IInv, PushData
    PROVE  IInv'
  <1> USE DEF IInv
  <1> DEFINE s == Len(sent)
             l == Len(buffer)
  <1>0. /\ main = "push" /\ mode = "write" /\ curl # "none"
        /\ off \in Nat /\ s \in Nat /\ l \in Nat /\ want \in Nat /\ Size \in Nat
        /\ off + want <= Size /\ CallMax \in Nat /\ want <= CallMax
        /\ l <= MaxBuffer /\ MaxBuffer \in Nat /\ data = <<>>
    BY PushPullAssumption DEF PushData, TypeOK, Control, Download, Pulling
  <1>1. PICK n \in 0 .. want :
          /\ error \/ finished => n = 0
          /\ l + n <= MaxBuffer
          /\ buffer' = Cat(buffer, From(off, n))
          /\ off' = off + n
          /\ (main' = "idle" /\ want' = 0) \/ (main' = "push_wait" /\ want' = want - n)
          /\ UNCHANGED <<mode, last_off, data, closing, curl, curlVars, objVars>>
    <2>1. (IF error \/ finished THEN 0 ELSE Smaller(want, MaxBuffer - l)) \in 0 .. want
      BY <1>0 DEF Smaller
    <2>2. l + (IF error \/ finished THEN 0 ELSE Smaller(want, MaxBuffer - l)) <= MaxBuffer
      BY <1>0 DEF Smaller
    <2>4. error \in BOOLEAN /\ finished \in BOOLEAN
      BY DEF TypeOK
    <2>5. CASE error \/ finished
      <3>1. buffer' = Cat(buffer, From(off, 0)) /\ off' = off + 0
        BY <2>5 DEF PushData, Cat
      <3>2. /\ main' = "idle" /\ want' = 0
            /\ UNCHANGED <<mode, last_off, data, closing, curl, curlVars, objVars>>
        BY <2>4, <2>5 DEF PushData
      <3>3. 0 \in 0 .. want /\ l + 0 <= MaxBuffer
        BY <1>0
      <3> HIDE DEF l
      <3> USE <3>3
      <3> WITNESS 0 \in 0 .. want
      <3> QED BY <3>1, <3>2
    <2>6. CASE ~(error \/ finished)
      <3>1. PICK n \in 0 .. want : n = Smaller(want, MaxBuffer - l)
        BY <2>1, <2>6
      <3>2. buffer' = Cat(buffer, From(off, n)) /\ off' = off + n
        BY <2>6, <3>1 DEF PushData, Cat
      <3>3. /\ (main' = "idle" /\ want' = 0) \/ (main' = "push_wait" /\ want' = want - n)
            /\ UNCHANGED <<mode, last_off, data, closing, curl, curlVars, objVars>>
        BY <2>4, <2>6, <3>1 DEF PushData
      <3>4. l + n <= MaxBuffer
        BY <2>2, <2>6, <3>1
      <3> QED BY <2>6, <3>1, <3>2, <3>3, <3>4
    <2> QED BY <2>5, <2>6
  <1>2. /\ sent = From(0, s)
        /\ buffer = From(s, l)
        /\ off = s + l
    BY <1>0 DEF Upload
  <1>3. buffer' = From(s, l + n) /\ Len(buffer') = l + n
    <2> HIDE DEF s, l
    <2>1. Cat(From(s, l), From(off, n)) = From(s, l + n)
      BY <1>0, <1>2, FromConcat
    <2>2. Len(From(s, l + n)) = l + n
      BY <1>0, FromIsSeq
    <2> QED BY <1>1, <1>2, <2>1, <2>2
  <1>4. off' = s + (l + n) /\ l + n \in Nat /\ s + (l + n) <= Size
    <2> HIDE DEF s, l
    <2> QED BY <1>0, <1>1, <1>2
  <1>5. TypeOK'
    <2>1. buffer' \in Seq(1 .. Size) /\ Len(buffer') <= MaxBuffer
      BY <1>0, <1>1, <1>3, <1>4, FromType
    <2>2. off' \in 0 .. Size /\ want' \in 0 .. CallMax /\ main' \in MainPc
      BY <1>0, <1>1, <1>4 DEF MainPc
    <2> QED BY <1>1, <2>1, <2>2 DEF TypeOK, curlVars, objVars
  <1>6. Control'
    <2>1. off' + want' <= Size
      BY <1>0, <1>1, <1>4
    <2> QED BY <1>0, <1>1, <2>1 DEF Control, Pulling, Deleting, curlVars
  <1>7. Download'
    BY <1>0, <1>1 DEF Download, Delivered, Pulling, Deleting, curlVars, objVars
  <1>8. Upload'
    <2>1. CASE n = 0
      <3>1. buffer' = buffer /\ off' = off
        BY <1>0, <1>1, <1>2, <1>3, <1>4, <2>1
      <3> QED BY <1>0, <1>1, <3>1 DEF Upload, curlVars, objVars
    <2>2. CASE n # 0
      <3>1. ~finished
        BY <1>1, <2>2
      <3> QED BY <1>0, <1>1, <1>2, <1>3, <1>4, <3>1 DEF Upload, curlVars, objVars
    <2> QED BY <2>1, <2>2
  <1> QED BY <1>5, <1>6, <1>7, <1>8

(* The thread of the transfer sends blocks of the buffer, or finds none.   *)
LEMMA Send_IInv ==
    ASSUME IInv, Send
    PROVE  IInv'
  <1> USE DEF IInv
  <1> DEFINE s == Len(sent)
             l == Len(buffer)
  <1>0. /\ mode = "write" /\ curl = "perform" /\ ChunkMax \in Nat
        /\ s \in Nat /\ l \in Nat /\ l <= MaxBuffer /\ MaxBuffer \in Nat
        /\ off \in Nat /\ off <= Size /\ Size \in Nat
        /\ UNCHANGED <<fileVars, callVars, chunk, paused, pos, objVars>>
    BY PushPullAssumption DEF Send, TypeOK
  <1>1. CASE /\ buffer' = buffer /\ sent' = sent /\ main' = main /\ moved' = moved
             /\ \/ curl' = "pausing" /\ res' = res
                \/ curl' = "ended" /\ finished /\ buffer = <<>> /\ res' = "ok"
    <2>1. TypeOK'
      BY <1>0, <1>1 DEF TypeOK, CurlPc, fileVars, callVars, objVars
    <2>2. Control'
      BY <1>0, <1>1 DEF Control, Pulling, Deleting, fileVars, callVars
    <2>3. Download'
      BY <1>0, <1>1 DEF Download, Delivered, Pulling, Deleting, fileVars, callVars, objVars
    <2>4. Upload'
      BY <1>0, <1>1 DEF Upload, fileVars, objVars
    <2> QED BY <2>1, <2>2, <2>3, <2>4
  <1>2. ASSUME NEW n \in 0 .. l,
               sent' = sent \o SubSeq(buffer, 1, n),
               buffer' = Rest(buffer, n),
               main' = WokenPush, moved' = TRUE, curl' = curl, res' = res
        PROVE  IInv'
    <2>1. /\ sent = From(0, s)
          /\ buffer = From(s, l) /\ s = 0 + s
          /\ off = s + l
      BY <1>0 DEF Upload
    <2>2. /\ sent' = From(0, s + n) /\ Len(sent') = s + n
          /\ buffer' = From(0 + (s + n), l - n) /\ Len(buffer') = l - n
      <3> HIDE DEF s, l
      <3>1. sent' = Cat(sent, SubSeq(buffer, 1, n))
        BY <1>2 DEF Cat
      <3>2. Cat(sent, SubSeq(buffer, 1, n)) = From(0, s + n)
        BY <1>0, <2>1, Move
      <3>3. Rest(buffer, n) = From(0 + (s + n), l - n)
        BY <1>0, <2>1, Move
      <3>4. s + n \in Nat /\ l - n \in Nat /\ 0 + (s + n) \in Nat
        BY <1>0
      <3>5. Len(From(0, s + n)) = s + n /\ Len(From(0 + (s + n), l - n)) = l - n
        BY <1>0, <3>4, FromIsSeq
      <3> QED BY <1>2, <3>1, <3>2, <3>3, <3>5
    <2>3. /\ 0 + (s + n) = s + n /\ s + n \in Nat /\ l - n \in Nat
          /\ off = s + n + (l - n) /\ s + n <= Size /\ l - n <= MaxBuffer
      <3> HIDE DEF s, l
      <3> QED BY <1>0, <2>1
    <2>4. /\ main' = main \/ (main = "push_wait" /\ main' = "push")
      BY <1>2 DEF WokenPush
    <2> HIDE DEF s, l
    <2>5. TypeOK'
      <3>1. sent' \in Seq(1 .. Size)
        BY <1>0, <2>2, <2>3, FromType
      <3>2. buffer' \in Seq(1 .. Size) /\ Len(buffer') <= MaxBuffer
        BY <1>0, <2>2, <2>3, FromType
      <3> QED BY <1>0, <1>2, <2>4, <3>1, <3>2
              DEF TypeOK, MainPc, fileVars, callVars, objVars
    <2>6. Control'
      BY <1>0, <1>2, <2>4 DEF Control, Pulling, Deleting, fileVars, callVars
    <2>7. Download'
      BY <1>0, <1>2, <2>4 DEF Download, Delivered, Pulling, Deleting, fileVars, callVars, objVars
    <2>8. Upload'
      BY <1>0, <1>2, <2>2, <2>3 DEF Upload, fileVars, objVars
    <2> QED BY <2>5, <2>6, <2>7, <2>8
  <1>3. ASSUME NEW n \in 1 .. Smaller(ChunkMax, Len(buffer)) PROVE n \in 0 .. l
    BY <1>0, <1>3 DEF Smaller
  <1> QED BY <1>1, <1>2, <1>3 DEF Send, EndOfUpload

(* The end of the wait for the thread. *)
LEMMA Join_IInv ==
    ASSUME IInv, Join
    PROVE  IInv'
  <1> USE DEF IInv
  <1>0. <<>> \in Seq(1 .. Size) /\ Len(<<>>) = 0 /\ 0 \in 0 .. Size /\ 0 - 0 = 0
    BY PushPullAssumption
  <1>1. TypeOK'
    BY <1>0 DEF Join, TypeOK, MainPc, CurlPc, fileVars, curlVars, objVars
  <1>2. Control'
    BY DEF Join, TypeOK, Control, Pulling, Deleting, fileVars, curlVars, objVars
  <1>3. Delivered'
    <2>1. CASE closing
      BY <1>0, <2>1, FromEmpty DEF Join, Delivered, Pulling
    <2>2. CASE ~closing
      BY <2>2 DEF Join, TypeOK, Delivered, Download, Pulling, Deleting, fileVars
    <2> QED BY <2>1, <2>2 DEF TypeOK
  <1>4. Download'
    BY <1>0, <1>3 DEF Join, TypeOK, Download, Pulling, Deleting, fileVars, curlVars, objVars
  <1>5. Upload'
    <2>1. mode' = "write" => FALSE
      BY DEF Join, Control, Deleting, fileVars
    <2> QED BY <2>1 DEF Upload
  <1> QED BY <1>1, <1>2, <1>4, <1>5

(* A chunk of what the remote file has left fits into it. *)
LEMMA Fits ==
    ASSUME NEW p \in Nat, NEW z \in Nat, p < z, NEW x \in Nat,
           NEW c \in 1 .. Smaller(x, z - p)
    PROVE  c \in 0 .. x /\ p + c <= z
  <1>1. Smaller(x, z - p) \in Nat /\ Smaller(x, z - p) <= x /\ p + Smaller(x, z - p) <= z
    BY DEF Smaller
  <1> QED BY <1>1

(* curl calls the write callback. *)
LEMMA Receive_IInv ==
    ASSUME IInv, Receive
    PROVE  IInv'
  <1> USE DEF IInv
  <1>1. /\ curl = "perform" /\ mode = "read" /\ curl' = "deliver"
        /\ pos \in Nat /\ pos < Size /\ Size \in Nat /\ ChunkMax \in Nat
        /\ chunk' \in 1 .. Smaller(ChunkMax, Size - pos)
        /\ moved' = TRUE
        /\ UNCHANGED <<fileVars, main, callVars, paused, pos, sent, res, buffer, objVars>>
    BY PushPullAssumption DEF Receive, TypeOK
  <1>2. chunk' \in 0 .. ChunkMax /\ pos + chunk' <= Size
    BY <1>1, Fits
  <1>3. TypeOK'
    BY <1>1, <1>2 DEF TypeOK, CurlPc, fileVars, callVars, objVars
  <1>4. Control'
    BY <1>1, <1>2 DEF Control, Pulling, Deleting, fileVars, callVars
  <1>5. Download'
    BY <1>1 DEF Download, Delivered, Front, Pulling, Deleting, fileVars, callVars, objVars
  <1>6. Upload'
    BY <1>1 DEF Upload, fileVars
  <1> QED BY <1>3, <1>4, <1>5, <1>6

(* The write callback puts its chunk into the buffer, waits, or gives up.  *)
LEMMA Deliver_IInv ==
    ASSUME IInv, Deliver
    PROVE  IInv'
  <1> USE DEF IInv
  <1> DEFINE l == Len(buffer)
  <1>0. /\ curl = "deliver" /\ mode = "read" /\ pos + chunk <= Size
        /\ chunk \in Nat /\ pos \in Nat /\ Size \in Nat /\ l \in Nat
        /\ MaxBuffer \in Nat /\ ChunkMax \in Nat
        /\ UNCHANGED <<fileVars, callVars, moved, paused, sent, objVars>>
    BY PushPullAssumption DEF Deliver, TypeOK, Control
  <1>1. main' = main \/ (main = "pull_wait" /\ main' = "pull")
    BY DEF Deliver, WokenPull
  <1>2. /\ Pulling' = Pulling /\ Deleting' = Deleting /\ Front' = Front
        /\ Delivered' = Delivered
    BY <1>0, <1>1 DEF Pulling, Deleting, Front, Delivered, fileVars, callVars
  <1>3. CASE /\ buffer' = buffer /\ pos' = pos
             /\ \/ curl' = "ended" /\ res' = "fail" /\ chunk' = 0
                \/ curl' = "deliver_wait" /\ UNCHANGED <<res, chunk>>
    <2>1. TypeOK'
      BY <1>0, <1>1, <1>3 DEF TypeOK, MainPc, CurlPc, fileVars, callVars, objVars
    <2>2. Control'
      BY <1>0, <1>1, <1>3 DEF Control, Pulling, Deleting, fileVars, callVars
    <2>3. Download'
      <3>1. ~Deleting => ~finished
        BY <1>0 DEF Download
      <3> QED BY <1>0, <1>1, <1>2, <1>3, <3>1 DEF Download, fileVars, callVars, objVars
    <2>4. Upload'
      BY <1>0, <1>3 DEF Upload, fileVars
    <2> QED BY <2>1, <2>2, <2>3, <2>4
  <1>4. CASE /\ ~NoRoom
             /\ buffer' = Cat(buffer, From(pos, chunk))
             /\ pos' = pos + chunk
             /\ curl' = "perform" /\ chunk' = 0 /\ res' = res
    <2>1. /\ From(pos, chunk) \in Seq(1 .. Size) /\ Len(From(pos, chunk)) = chunk
      BY <1>0, FromType, FromIsSeq
    <2>2. buffer' \in Seq(1 .. Size) /\ Len(buffer') = l + chunk
      BY <1>4, <2>1, ConcatType DEF TypeOK, Cat
    <2>3. TypeOK'
      BY <1>0, <1>1, <1>4, <2>2 DEF TypeOK, NoRoom, MainPc, CurlPc, fileVars, callVars, objVars
    <2>4. Control'
      BY <1>0, <1>1, <1>4 DEF Control, Pulling, Deleting, fileVars, callVars
    <2>5. ASSUME ~Deleting
          PROVE  /\ buffer' = From(Front, Len(buffer'))
                 /\ pos' = Front + Len(buffer')
                 /\ ~finished
      <3>1. /\ buffer = From(Front, l) /\ pos = Front + l /\ ~finished
            /\ Front \in Nat
        BY <1>0, <2>5 DEF Download, Front, TypeOK
      <3> HIDE DEF l
      <3>2. Cat(buffer, From(pos, chunk)) = From(Front, l + chunk)
        BY <1>0, <3>1, FromConcat
      <3>3. Front + (l + chunk) = pos + chunk
        BY <1>0, <3>1
      <3> QED BY <1>4, <2>2, <3>1, <3>2, <3>3
    <2>6. Download'
      BY <1>0, <1>1, <1>2, <1>4, <2>5 DEF Download, fileVars, callVars, objVars
    <2>7. Upload'
      BY <1>0, <1>4 DEF Upload, fileVars
    <2> QED BY <2>3, <2>4, <2>6, <2>7
  <1> QED BY <1>3, <1>4 DEF Deliver, Cat

(* The thread ends. *)
LEMMA ThreadEnds_IInv ==
    ASSUME IInv, ThreadEnds
    PROVE  IInv'
  <1> USE DEF IInv
  <1>1. \/ main' = main
        \/ main = "push_wait" /\ main' = "push"
        \/ main = "pull_wait" /\ main' = "pull"
    BY DEF ThreadEnds, WokenPush, WokenPull
  <1>2. TypeOK'
    BY <1>1 DEF ThreadEnds, TypeOK, Failed, MainPc, CurlPc, fileVars, callVars, curlVars
  <1>3. Control'
    BY <1>1 DEF ThreadEnds, Control, Pulling, Deleting, fileVars, callVars, curlVars
  <1>4. Download'
    BY <1>1 DEF ThreadEnds, Download, Delivered, Front, Pulling, Deleting, Failed,
                fileVars, callVars, curlVars
  <1>5. Upload'
    BY DEF ThreadEnds, Upload, fileVars, callVars, curlVars
  <1> QED BY <1>2, <1>3, <1>4, <1>5

(* Closing a file. *)
LEMMA Close_IInv ==
    ASSUME IInv, Close
    PROVE  IInv'
  <1> USE DEF IInv
  <1>0. <<>> \in Seq(1 .. Size) /\ Len(<<>>) = 0 /\ 0 \in 0 .. Size
    BY PushPullAssumption
  <1>1. TypeOK'
    BY <1>0 DEF Close, TypeOK, MainPc, fileVars, curlVars, objVars
  <1>2. Control'
    BY DEF Close, Control, Pulling, Deleting, fileVars, curlVars, objVars
  <1>3. Delivered'
    <2>1. CASE curl = "none"
      BY <1>0, <2>1, FromEmpty DEF Close, Delivered, Pulling
    <2>2. CASE curl # "none"
      BY <2>2 DEF Close, Delivered, Download, Pulling, fileVars
    <2> QED BY <2>1, <2>2
  <1>4. Download'
    BY <1>0, <1>3 DEF Close, Control, Download, Pulling, Deleting, fileVars, curlVars, objVars
  <1>5. Upload'
    BY DEF Close, Control, Upload, fileVars, curlVars, objVars
  <1> QED BY <1>1, <1>2, <1>4, <1>5

(* The first half of the destructor. *)
LEMMA Cancel_IInv ==
    ASSUME IInv, Cancel
    PROVE  IInv'
  <1> USE DEF IInv
  <1>1. TypeOK'
    BY DEF Cancel, TypeOK, WokenCurl, MainPc, CurlPc, fileVars, callVars, curlVars
  <1>2. Control'
    BY DEF Cancel, Control, Pulling, Deleting, WokenCurl, fileVars, callVars, curlVars
  <1>3. Download'
    BY DEF Cancel, Download, Delivered, Pulling, Deleting, WokenCurl, fileVars, callVars, curlVars
  <1>4. Upload'
    BY DEF Cancel, Upload, WokenCurl, fileVars, callVars, curlVars
  <1> QED BY <1>1, <1>2, <1>3, <1>4

(* The second half of Cancel. *)
LEMMA Resume_IInv ==
    ASSUME IInv, Resume
    PROVE  IInv'
  <1> USE DEF IInv
  <1>1. TypeOK'
    BY DEF Resume, TypeOK, MainPc, fileVars, callVars, objVars
  <1>2. Control'
    BY DEF Resume, Control, Pulling, Deleting, fileVars, callVars
  <1>3. Download'
    BY DEF Resume, Download, Delivered, Pulling, Deleting, fileVars, callVars, objVars
  <1>4. Upload'
    BY DEF Resume, Upload, fileVars, callVars, objVars
  <1> QED BY <1>1, <1>2, <1>3, <1>4

(* The steps of curl that leave the data alone: its progress callback,     *)
(* curl_easy_pause, and the two ends of curl_easy_perform.                 *)
LEMMA Curl_IInv ==
    ASSUME IInv, Progress \/ SetPause \/ Received \/ NetworkFails
    PROVE  IInv'
  <1> USE DEF IInv
  <1>1. /\ curl \in {"perform", "pausing", "resuming"}
        /\ \/ curl' \in {"perform", "pausing", "resuming"} /\ res' = res
           \/ curl' = "ended" /\ res' = "fail"
           \/ curl' = "ended" /\ res' = "ok" /\ mode = "read" /\ pos = Size
        /\ paused' \in BOOLEAN
        /\ UNCHANGED <<fileVars, main, callVars, chunk, moved, pos, sent, buffer, objVars>>
    BY DEF Progress, SetPause, Received, NetworkFails, TypeOK
  <1>2. TypeOK'
    BY <1>1 DEF TypeOK, CurlPc, fileVars, callVars, objVars
  <1>3. Control'
    BY <1>1 DEF Control, Pulling, Deleting, fileVars, callVars
  <1>4. Download'
    BY <1>1 DEF Download, Delivered, Front, Pulling, Deleting, fileVars, callVars, objVars
  <1>5. Upload'
    BY <1>1 DEF Upload, fileVars, objVars
  <1> QED BY <1>2, <1>3, <1>4, <1>5

(* IInv is an inductive invariant. *)
LEMMA Next_IInv == IInv /\ [Next]_vars => IInv'
  <1> SUFFICES ASSUME IInv, [Next]_vars PROVE IInv'
    OBVIOUS
  <1>1. CASE Calls
    BY <1>1, Open_IInv, Seek_IInv, Read_IInv, Write_IInv, Close_IInv DEF Calls
  <1>2. CASE Main
    BY <1>2, Create_IInv, PullData_IInv, PushData_IInv, Cancel_IInv, Resume_IInv, Join_IInv
       DEF Main
  <1>3. CASE Curl
    BY <1>3, Receive_IInv, Deliver_IInv, Send_IInv, Curl_IInv, ThreadEnds_IInv DEF Curl
  <1>4. CASE UNCHANGED vars
    BY <1>4 DEF vars, fileVars, callVars, curlVars, objVars, IInv, TypeOK, Control, Pulling,
               Deleting, Download, Front, Delivered, Upload
  <1> QED BY <1>1, <1>2, <1>3, <1>4 DEF Next

(* IInv holds in every state. *)
THEOREM Invariance == Spec => []IInv
  <1> QED BY Init_IInv, Next_IInv, PTL DEF Spec

(* Every variable stays in its type: in particular the buffer never holds  *)
(* more than MAX_BUFFER_SIZE.                                              *)
THEOREM TypeCorrect == Spec => []TypeOK
  <1>1. IInv => TypeOK
    BY DEF IInv
  <1> QED BY <1>1, Invariance, PTL

(* Every read delivers the blocks at its position, however the seeks,      *)
(* reads, restarts and failures before it went.                            *)
THEOREM ReadsTheFile == Spec => []ReadsFile
  <1>1. IInv => ReadsFile
    BY DEF IInv, Download, Delivered, ReadsFile, Pulling
  <1> QED BY <1>1, Invariance, PTL

(* A read comes up short only when its transfer failed: a download that    *)
(* has ended without an error has put everything up to the end of the file *)
(* into the buffer, and a read does not reach beyond that.                 *)
THEOREM ShortReadsFail == Spec => ShortOnlyOnError
  <1> DEFINE A == main = "pull" /\ main' = "idle" /\ off' < off + Len(data) + want => error
  <1>1. IInv /\ [Next]_vars => [A]_vars
    <2> SUFFICES ASSUME IInv, [Next]_vars, main = "pull", main' = "idle",
                        off' < off + Len(data) + want, ~error
                 PROVE  FALSE
      OBVIOUS
    <2>1. PullData
      BY DEF Next, Calls, Main, Curl, Open, Seek, Read, Write, Close, Create, PushData, Cancel,
             Resume, Join, Receive, Deliver, Send, Progress, SetPause, Received, NetworkFails,
             ThreadEnds, WokenPull, WokenPush, vars
    <2> DEFINE k == Len(data)
               l == Len(buffer)
    <2>2. /\ off \in Nat /\ want \in Nat /\ k \in Nat /\ l \in Nat /\ Size \in Nat /\ pos \in Nat
          /\ off + k + want <= Size /\ mode = "read" /\ curl # "none"
          /\ data \in Seq(1 .. Size) /\ buffer \in Seq(1 .. Size)
      BY PushPullAssumption DEF IInv, TypeOK, Control, Pulling
    <2>3. /\ pos = off + k + l
          /\ finished => pos = Size
      BY <2>2 DEF IInv, TypeOK, Download, Front, Pulling, Deleting
    <2>4. PICK n \in 0 .. l : n = Smaller(want, l)
      BY <2>2 DEF Smaller
    <2>5. Len(data') = k + n
      <3>1. data' = data \o SubSeq(buffer, 1, n)
        BY <2>1, <2>4 DEF PullData
      <3>2. SubSeq(buffer, 1, n) \in Seq(1 .. Size) /\ Len(SubSeq(buffer, 1, n)) = n
        BY <2>2, <2>4, Cut
      <3> QED BY <2>2, <3>1, <3>2, ConcatType
    <2>6. off' = off + Len(data') /\ (n = want \/ finished)
      BY <2>1, <2>4 DEF PullData
    <2> HIDE DEF k, l
    <2>7. n = want
      BY <2>2, <2>3, <2>4, <2>6 DEF Smaller
    <2> QED BY <2>2, <2>5, <2>6, <2>7 DEF k
  <1> QED BY <1>1, Invariance, PTL DEF Spec, ShortOnlyOnError

(* A file that was closed, and whose upload did not fail, is on the remote *)
(* side whole and in order.                                                *)
THEOREM UploadsAreComplete == Spec => UploadComplete
  <1> DEFINE A == mode = "write" /\ mode' = "closed" /\ curl = "exited" /\ res = "ok"
                    => sent = From(0, off)
  <1>1. IInv => A
    <2> SUFFICES ASSUME IInv, mode = "write", curl = "exited", res = "ok"
                 PROVE  sent = From(0, off)
      OBVIOUS
    <2>1. buffer = <<>> /\ sent = From(0, Len(sent)) /\ off = Len(sent) + Len(buffer)
      BY DEF IInv, Upload
    <2>2. off = Len(sent)
      BY <2>1 DEF IInv, TypeOK
    <2> QED BY <2>1, <2>2
  <1> QED BY <1>1, Invariance, PTL DEF Spec, UploadComplete
=============================================================================
