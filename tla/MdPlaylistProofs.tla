-------------------------- MODULE MdPlaylistProofs --------------------------
(* The playlist, for lists of any size, any lead, and metadata that promise    *)
(* any number of chunks: what holds whatever is lost, and what holds as long   *)
(* as nothing unforeseen happens.                                              *)
EXTENDS MdPlaylist, TLAPS

LEMMA Constants ==
  /\ N \in Nat /\ N >= 1 /\ Files = 1..N /\ None = 0 /\ None \notin Files
  /\ Ahead \in Nat /\ Ahead >= 1 /\ MaxMishaps \in Nat
  /\ \A n \in Lengths : n \in Nat /\ n >= 1
  /\ \A n \in Totals : n \in Int
  BY MdPlaylistAssumption DEF MdPlaylistAssumption, Files, None

LEMMA TrackTypes ==
  ASSUME TypeOK, NEW f \in Files
  PROVE  /\ len[f] \in Nat /\ len[f] >= 1 /\ total[f] \in Int
         /\ Setup(f) \in Nat
<1>1. len[f] \in Lengths /\ total[f] \in Totals
  BY DEF TypeOK
<1> QED
  BY <1>1, Constants DEF Setup

\* The start event of a track that the playlist can rely on lies before its last
\* chunk: it cannot meet that one, after which the list has already moved on, and
\* is not reset before it is met.
LEMMA EventBeforeLast ==
  ASSUME TypeOK, NEW f \in Files, Foreseeable(f)
  PROVE  /\ len[f] >= 2 /\ Setup(f) < len[f] - 1
         /\ Setup(f) > 0 => Setup(f) <= total[f] - 1
  BY TrackTypes, Constants DEF Foreseeable, Setup

LEMMA NextOfIs ==
  /\ \A c \in Files : NextOf(c) = IF c < N THEN c + 1 ELSE None
  /\ \A c \in Files \cup {None} : NextOf(c) \in Files \cup {None}
  /\ NextOf(None) = None
  /\ \A c : NextOf(c) # None => c \in Files /\ c < N /\ NextOf(c) = c + 1 /\ NextOf(c) \in Files
  BY Constants DEF NextOf

LEMMA StateTypes ==
  ASSUME TypeOK, heard < Len(started)
  PROVE  /\ heard \in Nat /\ Len(started) \in Nat /\ order \in Nat /\ startEvent \in Nat
         /\ started \in Seq(Files) /\ heard + 1 \in 1..Len(started)
         /\ Playing \in Files /\ order < len[Playing]
<1>1. /\ heard \in Nat /\ Len(started) \in Nat /\ order \in Nat /\ startEvent \in Nat
      /\ started \in Seq(Files) /\ order < len[Playing]
  BY DEF TypeOK
<1>2. heard + 1 \in 1..Len(started)
  BY <1>1
<1> QED
  BY <1>1, <1>2 DEF Playing

-----------------------------------------------------------------------------
(* Types, and decoders started ahead.                                          *)

LEMMA InitInvariant ==
  ASSUME Init  PROVE  IInv
<1> USE DEF Init
<1>1. Len(started) = 1 /\ started[1] = 1 /\ started \in Seq(Files) /\ 1 \in Files
  BY Constants
<1>2. TypeOK
  <2>1. len[1] \in Nat /\ len[1] >= 1
    <3>1. len[1] \in Lengths  BY <1>1
    <3> QED  BY <3>1, Constants
  <2> QED  BY <1>1, <2>1, Constants DEF TypeOK, Playing
<1>3. OneAhead  BY <1>1, Constants DEF OneAhead
<1>4. LeadKept  BY <1>1, Constants DEF LeadKept
<1>5. InStep  BY <1>1, <1>4, Constants DEF InStep
<1> QED  BY <1>2, <1>3, <1>5 DEF IInv

\* What Passed does to heard and order, and that the order stays below the length
\* of the track that is next.
LEMMA PassedTypes ==
  ASSUME TypeOK, heard < Len(started), Passed(Playing),
         len' = len, started' \in Seq(Files), Len(started') >= Len(started),
         \A i \in 1..Len(started) : started'[i] = started[i]
  PROVE  /\ heard' \in 0..Len(started') /\ order' \in Nat
         /\ heard' < Len(started') => order' < len'[Playing']
         /\ \/ order = len[Playing] - 1 /\ heard' = heard + 1 /\ order' = 0
            \/ order < len[Playing] - 1 /\ heard' = heard /\ order' = order + 1
<1>1. /\ heard \in Nat /\ Len(started) \in Nat /\ order \in Nat
      /\ heard + 1 \in 1..Len(started) /\ Playing \in Files /\ order < len[Playing]
  BY StateTypes
<1>2. len[Playing] \in Nat /\ len[Playing] >= 1 /\ Len(started') \in Nat
  BY <1>1, TrackTypes
<1>3. CASE order = len[Playing] - 1
  <2>1. heard' = heard + 1 /\ order' = 0
    BY <1>3 DEF Passed
  <2>2. ASSUME heard' < Len(started') PROVE order' < len'[Playing']
    <3>1. heard' + 1 \in 1..Len(started')
      BY <1>1, <1>2, <2>1, <2>2
    <3>2. Playing' \in Files
      BY <3>1 DEF Playing
    <3>3. len[Playing'] \in Lengths
      BY <3>2 DEF TypeOK
    <3>4. len[Playing'] >= 1 /\ len[Playing'] \in Nat
      BY <3>3, Constants
    <3> QED
      BY <2>1, <3>4
  <2> QED
    BY <1>1, <1>2, <1>3, <2>1, <2>2
<1>4. CASE order # len[Playing] - 1
  <2>1. heard' = heard /\ order' = order + 1 /\ order < len[Playing] - 1
    BY <1>1, <1>2, <1>4 DEF Passed
  <2>2. Playing' = Playing
    BY <1>1, <2>1 DEF Playing
  <2> QED
    BY <1>1, <1>2, <2>1, <2>2
<1> QED
  BY <1>3, <1>4

\* A chunk may start a decoder if none was started ahead; then the start event
\* is behind, for the rest of the track.
LEMMA TakeInTypes ==
  ASSUME TypeOK, OneAhead, TakeIn  PROVE  TypeOK' /\ OneAhead'
<1>1. PICK told \in BOOLEAN :
        LET f == Playing
            event == EventAfterStart(f, told)
            c == CurrAfterLast(f)
        IN /\ Announces(f, told)
           /\ curr' = c
           /\ started' = IF StartsNext(event, c) THEN Append(started, NextOf(c)) ELSE started
           /\ startEvent' = EventAfterLoad(f, event)
           /\ oldmeta' = IF told THEN f ELSE oldmeta
           /\ mishaps' = IF MayAnnounce(f) /\ ~told THEN mishaps + 1 ELSE mishaps
           /\ Passed(f)
  BY DEF TakeIn
<1> DEFINE f == Playing
           event == EventAfterStart(f, told)
           c == CurrAfterLast(f)
           starts == StartsNext(event, c)
<1>2. heard < Len(started) /\ UNCHANGED <<len, total, status>>
  BY DEF TakeIn
<1>3. /\ heard \in Nat /\ Len(started) \in Nat /\ order \in Nat /\ startEvent \in Nat
      /\ started \in Seq(Files) /\ f \in Files /\ order < len[f]
  BY <1>2, StateTypes
<1>4. len[f] \in Nat /\ Setup(f) \in Nat /\ curr \in Files /\ told \in BOOLEAN
  BY <1>2, <1>3, TrackTypes DEF OneAhead
<1>5. /\ curr' = c
      /\ started' = IF starts THEN Append(started, NextOf(c)) ELSE started
      /\ startEvent' = EventAfterLoad(f, event)
      /\ oldmeta' \in Files \cup {None}
      /\ Announces(f, told)
      /\ mishaps' = IF MayAnnounce(f) /\ ~told THEN mishaps + 1 ELSE mishaps
      /\ Passed(f)
  BY <1>1, <1>3 DEF TypeOK
<1>6. event \in Nat /\ (order > 0 => event = startEvent)
  BY <1>3, <1>4, <1>5 DEF EventAfterStart, Announces, MayAnnounce
<1>7. startEvent' \in {0, event} /\ startEvent' \in Nat
  BY <1>5, <1>6 DEF EventAfterLoad
<1>8. mishaps' \in 0..MaxMishaps
  <2>1. mishaps \in 0..MaxMishaps /\ mishaps' \in {mishaps, mishaps + 1} /\ (mishaps' # mishaps => mishaps < MaxMishaps)
    BY <1>5 DEF TypeOK, Announces
  <2> QED  BY <2>1, Constants
<1>9. c = (IF order = len[f] - 1 THEN NextOf(curr) ELSE curr) /\ c \in Files \cup {None}
  BY <1>4, NextOfIs DEF CurrAfterLast
<1>10. starts => NextOf(c) \in Files /\ order = event
  BY NextOfIs DEF StartsNext
<1> HIDE DEF event, c, starts
<1>11. /\ started' \in Seq(Files)
       /\ Len(started') = IF starts THEN Len(started) + 1 ELSE Len(started)
       /\ \A i \in 1..Len(started) : started'[i] = started[i]
  <2>1. CASE starts
    <3>1. started' = Append(started, NextOf(c)) /\ NextOf(c) \in Files
      BY <1>5, <1>10, <2>1
    <3> QED  BY <1>3, <2>1, <3>1
  <2>2. CASE ~starts
    <3>1. started' = started  BY <1>5, <2>2
    <3> QED  BY <1>3, <2>2, <3>1
  <2> QED  BY <2>1, <2>2
<1>12. /\ heard' \in 0..Len(started') /\ order' \in Nat
       /\ heard' < Len(started') => order' < len'[Playing']
       /\ \/ order = len[f] - 1 /\ heard' = heard + 1 /\ order' = 0
          \/ order < len[f] - 1 /\ heard' = heard /\ order' = order + 1
  <2>1. len' = len /\ Len(started') >= Len(started)
    BY <1>2, <1>3, <1>11
  <2> QED
    BY <1>2, <1>5, <1>11, <2>1, PassedTypes
<1>13. TypeOK'
  <2>1. /\ len' \in [Files -> Lengths] /\ total' \in [Files -> Totals]
        /\ status' \in {"playing", "ended", "stopped"}
    BY <1>2 DEF TypeOK
  <2> QED
    BY <1>5, <1>7, <1>8, <1>9, <1>11, <1>12, <2>1 DEF TypeOK
<1>14. Len(started) = heard + 1 \/ Len(started) = heard + 2
  BY <1>2, <1>3 DEF OneAhead
<1>15. starts => Len(started) = heard + 1
  <2> SUFFICES ASSUME starts, Len(started) = heard + 2 PROVE FALSE
    BY <1>14
  <2>1. order > 0 /\ startEvent < order  BY DEF OneAhead
  <2> QED  BY <2>1, <1>3, <1>6, <1>10
<1>16. CASE order = len[f] - 1
  <2>1. heard' = heard + 1 /\ order' = 0
    BY <1>3, <1>4, <1>12, <1>16
  <2>2. Len(started') <= heard' + 1
    BY <1>3, <1>11, <1>14, <1>15, <2>1
  <2>3. heard' < Len(started') => curr' \in Files
    <3> SUFFICES ASSUME heard' < Len(started') PROVE curr' \in Files
      OBVIOUS
    <3>1. CASE starts
      <4>1. NextOf(c) # None  BY <3>1 DEF starts, StartsNext
      <4> QED  BY <4>1, <1>5, NextOfIs
    <3>2. CASE ~starts
      <4>1. Len(started) = heard + 2  BY <1>3, <1>11, <1>14, <2>1, <3>2
      <4>2. NextOf(curr) # None  BY <4>1 DEF OneAhead
      <4> QED  BY <4>2, <1>5, <1>9, <1>16, NextOfIs
    <3> QED  BY <3>1, <3>2
  <2> QED
    <3>1. Len(started') \in Nat /\ heard' \in Nat  BY <1>3, <1>11, <2>1
    <3>2. \A a, b \in Nat : a <= b + 1 => a <= b + 2 /\ a # b + 2
      OBVIOUS
    <3>3. Len(started') <= heard' + 2 /\ Len(started') # heard' + 2
      BY <2>2, <3>1, <3>2
    <3> QED  BY <1>13, <2>3, <3>3 DEF OneAhead
<1>17. CASE order < len[f] - 1
  <2>1. heard' = heard /\ order' = order + 1 /\ curr' = curr /\ c = curr
    BY <1>3, <1>4, <1>5, <1>9, <1>12, <1>17
  <2>2. Len(started') <= heard' + 2
    BY <1>3, <1>11, <1>14, <1>15, <2>1
  <2>3. ASSUME Len(started') = heard' + 2
        PROVE  order' > 0 /\ startEvent' < order' /\ NextOf(curr') # None
    <3>1. CASE starts
      <4>1. order = event /\ NextOf(curr) # None
        BY <1>10, <2>1, <3>1 DEF starts, StartsNext
      <4> QED  BY <4>1, <1>3, <1>6, <1>7, <2>1
    <3>2. CASE ~starts
      <4>1. order > 0 /\ startEvent < order /\ NextOf(curr) # None
        BY <1>11, <2>1, <2>3, <3>2 DEF OneAhead
      <4> QED  BY <4>1, <1>3, <1>6, <1>7, <2>1
    <3> QED  BY <3>1, <3>2
  <2> QED
    BY <1>4, <1>13, <2>1, <2>2, <2>3 DEF OneAhead
<1> QED
  BY <1>12, <1>16, <1>17

\* A chunk that is lost starts nothing.
LEMMA LostTypes ==
  ASSUME TypeOK, OneAhead, ChunkLost  PROVE  TypeOK' /\ OneAhead'
<1>1. /\ heard < Len(started) /\ Passed(Playing) /\ mishaps < MaxMishaps
      /\ mishaps' = mishaps + 1
      /\ UNCHANGED <<len, total, curr, startEvent, started, status>>
  BY DEF ChunkLost
<1>2. /\ heard \in Nat /\ Len(started) \in Nat /\ order \in Nat /\ startEvent \in Nat
      /\ Playing \in Files /\ started \in Seq(Files)
  BY <1>1, StateTypes
<1>3. oldmeta' \in Files \cup {None}
  BY <1>2 DEF ChunkLost, TypeOK
<1>4. /\ heard' \in 0..Len(started') /\ order' \in Nat
      /\ heard' < Len(started') => order' < len'[Playing']
      /\ \/ heard' = heard + 1 /\ order' = 0
         \/ heard' = heard /\ order' = order + 1
  BY <1>1, <1>2, PassedTypes
<1>5. mishaps' \in 0..MaxMishaps
  BY <1>1, Constants DEF TypeOK
<1>6. TypeOK'
  BY <1>1, <1>3, <1>4, <1>5 DEF TypeOK
<1>7. OneAhead'
  <2>1. curr \in Files /\ Len(started) <= heard + 2
    BY <1>1 DEF OneAhead
  <2>2. CASE heard' = heard + 1
    BY <1>1, <1>2, <2>1, <2>2 DEF OneAhead
  <2>3. CASE heard' = heard /\ order' = order + 1
    <3>1. Len(started) = heard + 2 => order > 0 /\ startEvent < order /\ NextOf(curr) # None
      BY DEF OneAhead
    <3>2. NextOf(curr)' = NextOf(curr)
      BY <1>1
    <3> QED
      BY <1>1, <1>2, <2>1, <2>3, <3>1, <3>2 DEF OneAhead
  <2> QED
    BY <1>4, <2>2, <2>3
<1> QED
  BY <1>6, <1>7

-----------------------------------------------------------------------------
(* The order, as long as nothing unforeseen happens.                           *)

\* What was foreseen after a step was foreseen before it.
LEMMA ForeseenBefore ==
  ASSUME TypeOK, TakeIn, Foreseen'
  PROVE  Foreseen /\ mishaps' = mishaps /\ (heard + 1 \in Files => Foreseeable(heard + 1))
<1>1. /\ len' = len /\ total' = total /\ heard < Len(started)
      /\ heard' \in {heard, heard + 1} /\ mishaps' \in {mishaps, mishaps + 1}
  BY DEF TakeIn, Passed
<1>2. heard \in Nat /\ mishaps \in Nat /\ mishaps' = 0
  BY <1>1, StateTypes, Constants DEF TypeOK, Foreseen
<1>3. \A f \in Files : f <= heard + 1 => Foreseeable(f)
  <2> SUFFICES ASSUME NEW f \in Files, f <= heard + 1 PROVE Foreseeable(f)
    OBVIOUS
  <2>1. f <= heard' + 1
    <3>1. f \in Nat
      BY Constants
    <3>2. heard' = heard \/ heard' = heard + 1
      BY <1>1
    <3> QED
      BY <1>2, <3>1, <3>2
  <2>2. Foreseeable(f)'
    BY <2>1 DEF Foreseen
  <2> QED
    BY <1>1, <2>2 DEF Foreseeable
<1>4. mishaps = 0 /\ mishaps' = mishaps
  BY <1>1, <1>2
<1> QED
  BY <1>2, <1>3, <1>4 DEF Foreseen

(* A chunk that is not the last one: the next decoder is started by the one at *)
(* the start event, which the first chunk has set.                             *)
LEMMA TakeInInStep ==
  ASSUME IInv, TakeIn, Foreseen'  PROVE  InStep'
<1>1. PICK told \in BOOLEAN :
        LET g == Playing
            e == EventAfterStart(g, told)
            d == CurrAfterLast(g)
        IN /\ Announces(g, told)
           /\ curr' = d
           /\ started' = IF StartsNext(e, d) THEN Append(started, NextOf(d)) ELSE started
           /\ startEvent' = EventAfterLoad(g, e)
           /\ oldmeta' = IF told THEN g ELSE oldmeta
           /\ mishaps' = IF MayAnnounce(g) /\ ~told THEN mishaps + 1 ELSE mishaps
           /\ Passed(g)
  BY DEF TakeIn
<1> DEFINE f == heard + 1
           event == EventAfterStart(f, told)
           c == CurrAfterLast(f)
           final == order = len[f] - 1
           starts == StartsNext(event, c)
<1>2. TypeOK /\ OneAhead /\ InStep /\ mishaps' = mishaps
  BY ForeseenBefore DEF IInv
<1>3. /\ heard < Len(started) /\ heard \in Nat /\ Len(started) \in Nat /\ Len(started) <= N
      /\ order \in Nat /\ startEvent \in Nat /\ started \in Seq(Files)
      /\ mishaps \in Nat
  BY <1>2, StateTypes, Constants DEF TakeIn, TypeOK, InStep
<1>4. f \in Files /\ Playing = f /\ order < len[f]
  <2>1. f \in 1..Len(started) /\ f \in 1..N
    BY <1>3, Constants
  <2> QED
    BY <1>2, <1>3, <2>1, StateTypes, Constants DEF InStep, Playing
<1>5. /\ Foreseeable(f) /\ len[f] \in Nat /\ len[f] >= 2 /\ total[f] \in Int
      /\ Setup(f) \in Nat /\ Setup(f) < len[f] - 1
      /\ Setup(f) > 0 => Setup(f) <= total[f] - 1
  BY <1>2, <1>4, ForeseenBefore, TrackTypes, EventBeforeLast
<1>6. /\ curr = f
      /\ Len(started) = IF f = N \/ order = 0 \/ order <= Setup(f) THEN f ELSE f + 1
      /\ order > 0 /\ f < N /\ order <= Setup(f) => startEvent = Setup(f)
  BY <1>2, <1>3 DEF InStep, LeadKept
<1>7. /\ curr' = c
      /\ started' = IF starts THEN Append(started, NextOf(c)) ELSE started
      /\ startEvent' = EventAfterLoad(f, event)
      /\ heard' = IF final THEN heard + 1 ELSE heard
      /\ order' = IF final THEN 0 ELSE order + 1
      /\ len' = len /\ total' = total
  BY <1>1, <1>4 DEF TakeIn, Passed
<1>8. told <=> order = 0
  <2>1. MayAnnounce(f) <=> order = 0
    BY <1>5 DEF MayAnnounce
  <2>2. Announces(f, told) /\ (MayAnnounce(f) => told)
    BY <1>1, <1>2, <1>3, <1>4
  <2> QED
    BY <2>1, <2>2 DEF Announces
<1>9. NextOf(f) = IF f < N THEN f + 1 ELSE None
  BY <1>4, NextOfIs
<1>10. event = IF order = 0 /\ f < N THEN Setup(f) ELSE startEvent
  <2>1. NextOf(curr) # None <=> f < N
    BY <1>3, <1>4, <1>6, <1>9, Constants
  <2> QED
    BY <1>8, <2>1 DEF EventAfterStart
<1>11. c = IF final THEN NextOf(f) ELSE f
  BY <1>6 DEF CurrAfterLast
<1> HIDE DEF c, event
<1>12. starts <=> f < N /\ order = Setup(f)
  <2>1. CASE f = N
    <3>1. NextOf(c) = None  BY <1>3, <1>9, <1>11, <2>1, NextOfIs
    <3> QED  BY <2>1, <3>1, <1>3 DEF StartsNext
  <2>2. CASE f < N /\ order <= Setup(f)
    <3>1. event = Setup(f) /\ ~final
      BY <1>3, <1>5, <1>6, <1>10, <2>2
    <3>2. NextOf(c) # None  BY <1>3, <1>9, <1>11, <2>2, <3>1, Constants
    <3> QED  BY <2>2, <3>1, <3>2 DEF StartsNext
  <2>3. CASE f < N /\ order > Setup(f)
    <3>1. Len(started) = heard + 2 /\ order > 0
      BY <1>3, <1>5, <1>6, <2>3
    <3>2. startEvent < order /\ event = startEvent
      BY <1>2, <1>3, <1>10, <3>1 DEF OneAhead
    <3> QED  BY <1>3, <1>5, <2>3, <3>2 DEF StartsNext
  <2> QED  BY <1>3, <1>4, <1>5, <2>1, <2>2, <2>3, Constants
<1>13. starts => c = f /\ Len(started) = f /\ started' = Append(started, f + 1) /\ ~final
  <2> HAVE starts
  <2>1. f < N /\ order = Setup(f) /\ ~final  BY <1>5, <1>12
  <2>2. c = f  BY <2>1, <1>11
  <2>3. Len(started) = f  BY <2>1, <1>3, <1>5, <1>6
  <2>4. started' = Append(started, NextOf(c))  BY <1>7
  <2> QED  BY <2>1, <2>2, <2>3, <2>4, <1>9
<1> HIDE DEF starts
<1>14. /\ started' \in Seq(Files)
       /\ Len(started') = IF starts THEN Len(started) + 1 ELSE Len(started)
       /\ \A i \in 1..Len(started') : started'[i] = i
  <2>0. \A i \in 1..Len(started) : started[i] = i
    BY <1>2 DEF InStep
  <2>1. CASE starts
    <3>1. started' = Append(started, f + 1) /\ Len(started) = f /\ f + 1 \in Files
      BY <1>3, <1>12, <1>13, <2>1, Constants
    <3> HIDE DEF f
    <3> QED  BY <2>0, <2>1, <3>1, <1>3
  <2>2. CASE ~starts
    <3>1. started' = started  BY <2>2, <1>7
    <3> QED  BY <3>1, <2>2, <2>0, <1>3
  <2> QED  BY <2>1, <2>2
<1>15. Len(started') <= N
  <2>1. CASE starts
    <3>1. Len(started) = f /\ f < N  BY <1>12, <1>13, <2>1
    <3> QED  BY <1>3, <1>14, <2>1, <3>1, Constants
  <2>2. CASE ~starts
    BY <1>3, <1>14, <2>2
  <2> QED  BY <2>1, <2>2
<1>16. LeadKept'
  <2>1. CASE final
    <3>1. heard' = f /\ order' = 0 /\ curr' = NextOf(f) /\ ~starts
      BY <2>1, <1>7, <1>11, <1>13
    <3>2. CASE f = N
      <4>1. Len(started') = N  BY <3>1, <3>2, <1>6, <1>14
      <4> QED  BY <3>1, <3>2, <4>1 DEF LeadKept
    <3>3. CASE f < N
      <4>1. Len(started') = f + 1 /\ curr' = f + 1
        BY <2>1, <3>1, <3>3, <1>3, <1>5, <1>6, <1>9, <1>14
      <4> QED  BY <3>1, <4>1, <1>3 DEF LeadKept
    <3> QED  BY <3>2, <3>3, <1>3, <1>4, Constants
  <2>2. CASE ~final
    <3>1. heard' = heard /\ order' = order + 1 /\ order' > 0 /\ curr' = f
      BY <2>2, <1>3, <1>7, <1>11
    <3>2. heard' < Len(started')
      BY <3>1, <1>3, <1>14
    <3>3. Setup(f)' = Setup(f)
      BY <1>7, <3>1 DEF Setup
    <3>4. f < N /\ order' <= Setup(f) => startEvent' = Setup(f)
      <4> HAVE f < N /\ order' <= Setup(f)
      <4>1. order < Setup(f) /\ order # total[f] - 1 /\ event = Setup(f)
        BY <1>3, <1>5, <1>6, <1>10, <3>1
      <4> QED  BY <4>1, <1>7 DEF EventAfterLoad
    <3>5. Len(started') = IF f = N \/ order' <= Setup(f) THEN f ELSE f + 1
      <4>1. CASE f = N
        BY <4>1, <1>3, <1>6, <1>12, <1>14
      <4>2. CASE f < N /\ order < Setup(f)
        BY <4>2, <3>1, <1>3, <1>5, <1>6, <1>12, <1>14
      <4>3. CASE f < N /\ order = Setup(f)
        BY <4>3, <3>1, <1>3, <1>5, <1>6, <1>12, <1>14
      <4>4. CASE f < N /\ order > Setup(f)
        BY <4>4, <3>1, <1>3, <1>5, <1>6, <1>12, <1>14
      <4> QED  BY <4>1, <4>2, <4>3, <4>4, <1>3, <1>4, <1>5, Constants
    <3> QED  BY <3>1, <3>2, <3>3, <3>4, <3>5, <1>3 DEF LeadKept
  <2> QED  BY <2>1, <2>2
<1> QED  BY <1>14, <1>15, <1>16 DEF InStep

LEMMA StepInvariant ==
  ASSUME IInv, [Next]_listVars  PROVE  IInv'
<1>1. ASSUME TakeIn  PROVE  IInv'
  <2>1. TypeOK' /\ OneAhead'  BY <1>1, TakeInTypes DEF IInv
  <2>2. Foreseen' => InStep'  BY <1>1, TakeInInStep
  <2> QED  BY <2>1, <2>2 DEF IInv
<1>2. ASSUME ChunkLost  PROVE  IInv'
  <2>1. TypeOK' /\ OneAhead'  BY <1>2, LostTypes DEF IInv
  <2>2. ~Foreseen'
    <3>1. mishaps \in Nat /\ mishaps' = mishaps + 1
      BY <1>2, Constants DEF ChunkLost, IInv, TypeOK
    <3>2. mishaps' # 0  BY <3>1
    <3> QED  BY <3>2 DEF Foreseen
  <2> QED  BY <2>1, <2>2 DEF IInv
<1>3. ASSUME StoppedAtEnd \/ StoppedByUser \/ UNCHANGED listVars  PROVE  IInv'
  <2>1. /\ UNCHANGED <<len, total, curr, startEvent, oldmeta, started, heard, order, mishaps>>
        /\ status' \in {"playing", "ended", "stopped"}
    BY <1>3 DEF StoppedAtEnd, StoppedByUser, listVars, IInv, TypeOK
  <2>2. TypeOK'  BY <2>1 DEF IInv, TypeOK, Playing
  <2>3. OneAhead'  BY <2>1 DEF IInv, OneAhead, NextOf
  <2>4. Foreseen' <=> Foreseen  BY <2>1 DEF Foreseen, Foreseeable
  <2>5. InStep' <=> InStep  BY <2>1 DEF InStep, LeadKept, Setup
  <2> QED  BY <2>2, <2>3, <2>4, <2>5 DEF IInv
<1> QED  BY <1>1, <1>2, <1>3 DEF Next

-----------------------------------------------------------------------------
(* The callbacks of the playlist keep list and started decoders together       *)
(* through every lost announcement and chunk and whatever metadata promise,    *)
(* and in step as long as nothing unforeseen happens.                          *)
THEOREM PlaylistInvariant == Spec => []IInv
<1>1. IInv /\ [Next]_listVars => IInv'  BY StepInvariant
<1>2. Init => IInv  BY InitInvariant
<1> QED  BY <1>1, <1>2, PTL DEF Spec

(* md_play_async is never called for two files ahead of the track that is      *)
(* heard, and, as long as nothing unforeseen happens, for the files in their   *)
(* order, once for each.                                                       *)
THEOREM DecodersInOrder == Spec => []StartedInOrder
<1>1. IInv => StartedInOrder  BY DEF IInv, OneAhead, InStep, StartedInOrder
<1> QED  BY <1>1, PlaylistInvariant, PTL

(* No callback follows a curr that is NULL, whatever was skipped, repeated or  *)
(* lost.                                                                       *)
THEOREM CurrStaysPresent == Spec => []CurrPresent
<1>1. IInv => CurrPresent  BY Constants DEF IInv, OneAhead, CurrPresent
<1> QED  BY <1>1, PlaylistInvariant, PTL

(* The file that the callbacks report is the file whose chunk comes next, as   *)
(* long as nothing unforeseen happens.                                         *)
THEOREM CurrentIsHeard == Spec => []CurrIsHeard
<1>1. IInv => CurrIsHeard
  <2> SUFFICES ASSUME IInv, Foreseen, heard < Len(started) PROVE curr = Playing
    BY DEF CurrIsHeard
  <2>1. heard + 1 \in 1..Len(started)  BY StateTypes DEF IInv
  <2> QED  BY <2>1 DEF IInv, TypeOK, InStep, LeadKept, Playing
<1> QED  BY <1>1, PlaylistInvariant, PTL

(* If every track has two chunks or more and its metadata promise too many by  *)
(* less than the lead, every track is announced and no chunk is lost, the      *)
(* player does not run out of tracks before the last file.                     *)
THEOREM NoFileSkipped == Spec => []ForeseenPlayed
<1>1. IInv => ForeseenPlayed
  <2> SUFFICES ASSUME IInv, Foreseen, heard = Len(started)
               PROVE  heard = N /\ started[N] = N
    BY DEF ForeseenPlayed, NoneSkipped
  <2>1. heard = N  BY DEF IInv, InStep, LeadKept
  <2>2. N \in 1..Len(started)  BY <2>1, Constants
  <2> QED  BY <2>1, <2>2 DEF IInv, InStep
<1> QED  BY <1>1, PlaylistInvariant, PTL
=============================================================================
