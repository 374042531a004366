-------------------------- MODULE ClientData_proofs --------------------------
(***************************************************************************)
(* Proofs about what the translator keeps for a client: for any PSPs, DTAs *)
(* and descriptors, a map of any size, and whatever others do to the LDT.  *)
(***************************************************************************)
EXTENDS ClientData, TLAPS

\* Nothing is left of a client that is gone, and the host's descriptors are of the
\* segments they were made for.
MapInv ==
  /\ MapSound
  /\ ~active => seg_sel_map = <<>>
  /\ \A g \in Segments : host_map[g] # None => base[host_map[g]] = g

\* Where the client is: DOS is there too, or at the stand-in.
PspInv ==
  active /\ set_psp # None =>
    IF set_psp \in HighPsp THEN user_psp_sel = set_psp
                           ELSE user_psp_sel = None /\ dos_psp = set_psp

DtaInv ==
  /\ dos_dta = StandIn => active /\ user_dta # None
  /\ set_dta # None /\ active =>
       IF set_dta \in HighDta THEN dos_dta = StandIn /\ user_dta = set_dta
                              ELSE dos_dta = set_dta

\* The client's environment was converted when it started, and the host keeps what it
\* made: each PSP that has the client's word has that selector.
EnvInv ==
  /\ active => \A p \in own : env[p] \in Selector /\ host_map[HomeEnv] = env[p]
  /\ ~active => own = {Home} /\ dos_psp = Home /\ env[Home] = HomeEnv

-----------------------------------------------------------------------------
(* The maps.                                                               *)

\* What an entry is, and what a lookup finds.
LEMMA EntryType ==
  ASSUME TypeOK, NEW i \in Entries
  PROVE  /\ seg_sel_map[i] \in [seg : Key, sel : Selector \cup {Bad}]
         /\ seg_sel_map[i].seg \in Key
         /\ seg_sel_map[i].sel \in Selector \cup {Bad}
<1> DEFINE E == [seg : Key, sel : Selector \cup {Bad}]
<1>1. seg_sel_map \in Seq(E) /\ i \in 1 .. Len(seg_sel_map)
  BY DEF TypeOK, Entries
<1>2. seg_sel_map[i] \in E
  <2> HIDE DEF E
  <2> QED
    BY <1>1
<1> QED
  BY <1>2

LEMMA CachedIs ==
  ASSUME NEW k, NEW s
  PROVE  s \in Cached(k) <=> \E i \in Entries : seg_sel_map[i].seg = k /\ seg_sel_map[i].sel = s
BY DEF Cached

\* No segment is a value that stands for something else.
LEMMA SegmentIsOne ==
  /\ Key \subseteq Segments /\ HomeEnv \in Segments /\ LowDta \subseteq Segments
  /\ Zero \in Segments /\ Other \in Segments /\ LowPsp \subseteq Segments
  /\ None \notin Segments /\ Taken \notin Segments /\ Bad \notin Segments /\ Absent \notin Segments
  /\ None \notin Selector /\ Taken \notin Selector /\ Bad \notin Selector /\ Absent \notin Selector
  /\ HomeEnv # Zero /\ None # Bad /\ None # Taken
<1>1. /\ Key \subseteq Segments /\ HomeEnv \in Segments /\ LowDta \subseteq Segments
      /\ Zero \in Segments /\ Other \in Segments /\ LowPsp \subseteq Segments
  BY DEF Segments, Key
<1> HIDE DEF Segments
<1> QED
  BY <1>1, NamesAssumption

\* A descriptor that was free gets base g: the others keep theirs.
LEMMA SetBaseType ==
  ASSUME TypeOK, NEW s, NEW g \in Segments \cup {None, Taken}, SetBase(s, g)
  PROVE  /\ base' \in [Selector -> Segments \cup {None, Taken}]
         /\ s \in Selector => base'[s] = g
         /\ \A t \in Selector : t # s => base'[t] = base[t]
BY DEF SetBase, TypeOK

\* A conversion keeps the types of the maps.
LEMMA ConvertType ==
  ASSUME TypeOK, NEW k \in Key, NEW s \in Selector \cup {None, Bad}, Convert(k, s)
  PROVE  /\ seg_sel_map' \in Seq([seg : Key, sel : Selector \cup {Bad}])
         /\ Len(seg_sel_map') <= MapSize
         /\ base' \in [Selector -> Segments \cup {None, Taken}]
         /\ host_map' = host_map
         /\ Named(s) \in Segments \cup {None, Taken, Bad}
<1>1. CASE UNCHANGED <<seg_sel_map, base>>
  BY <1>1, SegmentIsOne DEF TypeOK, Convert, Named
<1>2. CASE /\ Len(seg_sel_map) < MapSize /\ s \in Allocated
           /\ seg_sel_map' = Append(seg_sel_map, [seg |-> k, sel |-> s])
           /\ SetBase(s, k)
  <2>1. s \in Selector \cup {Bad}
    BY <1>2 DEF Allocated, Free
  <2>2. [seg |-> k, sel |-> s] \in [seg : Key, sel : Selector \cup {Bad}]
    BY <2>1
  <2>3. /\ seg_sel_map' \in Seq([seg : Key, sel : Selector \cup {Bad}])
        /\ Len(seg_sel_map') = Len(seg_sel_map) + 1
    BY <1>2, <2>2 DEF TypeOK
  <2>4. Len(seg_sel_map') <= MapSize
    BY <2>3, <1>2, MapSizeAssumption DEF TypeOK
  <2>5. base' \in [Selector -> Segments \cup {None, Taken}] /\ (s \in Selector => base'[s] = k)
    BY <1>2, SetBaseType, SegmentIsOne
  <2> QED
    BY <2>1, <2>3, <2>4, <2>5, SegmentIsOne DEF Convert, Named
<1> QED
  BY <1>1, <1>2 DEF Convert

\* A conversion keeps the map sound, and the selector is of the segment, unless the map
\* or the LDT is full or was when the segment was converted first.
LEMMA ConvertSound ==
  ASSUME TypeOK, MapInv, active, active', NEW k \in Key,
         NEW s \in Selector \cup {None, Bad}, Convert(k, s)
  PROVE  /\ MapInv'
         /\ \/ Named(s) = k
            \/ Named(s) \in {None, Bad} /\ Unnamed(k)
         /\ \A t \in Selector : base[t] # None => base'[t] = base[t]
<1> USE SegmentIsOne
<1>0. host_map' = host_map
  BY DEF Convert
<1>1. CASE s \in Cached(k) /\ UNCHANGED <<seg_sel_map, base>>
  <2>1. PICK i \in Entries : seg_sel_map[i].seg = k /\ seg_sel_map[i].sel = s
    BY <1>1, CachedIs
  <2>2. MapInv'
    BY <1>0, <1>1 DEF MapInv, MapSound, Entries
  <2>3. CASE s = Bad
    BY <1>1, <2>2, <2>3 DEF Unnamed, Named
  <2>4. CASE s # Bad
    <3>1. base[s] = k /\ s \in Selector
      BY <2>1, <2>4, EntryType DEF MapInv, MapSound
    <3> QED
      BY <1>1, <2>2, <3>1 DEF Named
  <2> QED
    BY <2>3, <2>4
<1>2. CASE /\ Cached(k) = {} /\ Len(seg_sel_map) = MapSize
           /\ s = None /\ UNCHANGED <<seg_sel_map, base>>
  BY <1>0, <1>2 DEF MapInv, MapSound, Entries, Unnamed, Named
<1>3. CASE /\ Cached(k) = {} /\ Len(seg_sel_map) < MapSize /\ s \in Allocated
           /\ seg_sel_map' = Append(seg_sel_map, [seg |-> k, sel |-> s])
           /\ SetBase(s, k)
  <2> DEFINE n == Len(seg_sel_map)
  <2>2. /\ n \in Nat
        /\ Entries' = Entries \cup {n + 1} /\ n + 1 \notin Entries
        /\ \A i \in Entries : seg_sel_map'[i] = seg_sel_map[i]
        /\ seg_sel_map'[n + 1] = [seg |-> k, sel |-> s]
    BY <1>3 DEF Entries, TypeOK
  <2>3. \A i \in Entries : seg_sel_map[i].seg # k
    BY <1>3, CachedIs
  <2>4. \A i \in Entries : seg_sel_map[i].sel \in Selector \cup {Bad} /\ seg_sel_map[i].seg \in Segments
    BY EntryType
  <2>5. \A g \in Segments : host_map[g] \in Selector \cup {None}
    BY DEF TypeOK
  <2>6. CASE Free = {}
    <3>1. s = Bad
      BY <1>3, <2>6 DEF Allocated
    <3>2. base' = base
      BY <1>3, <3>1 DEF TypeOK, SetBase
    <3>3. MapSound'
      <4>1. \A i, j \in Entries' : seg_sel_map'[i].seg = seg_sel_map'[j].seg => i = j
        BY <2>2, <2>3 DEF MapSound, MapInv
      <4>2. \A i \in Entries' :
              seg_sel_map'[i].sel # Bad => base'[seg_sel_map'[i].sel] = seg_sel_map'[i].seg
        BY <2>2, <3>1, <3>2 DEF MapSound, MapInv
      <4>3. \A i \in Entries', g \in Segments : seg_sel_map'[i].sel # host_map'[g]
        BY <1>0, <2>2, <2>5, <3>1 DEF MapSound, MapInv
      <4>4. \A t \in Selector : base'[t] \in Segments =>
              \/ \E i \in Entries' : seg_sel_map'[i].sel = t
              \/ \E g \in Segments : host_map'[g] = t
        BY <1>0, <2>2, <3>2 DEF MapSound, MapInv
      <4> QED
        BY <4>1, <4>2, <4>3, <4>4 DEF MapSound
    <3>4. Named(s) = Bad /\ Unnamed(k)
      BY <1>3, <2>6, <3>1 DEF Unnamed, Named
    <3> QED
      BY <1>0, <3>2, <3>3, <3>4 DEF MapInv
  <2>7. CASE Free # {}
    <3>1. s \in Selector /\ base[s] = None
      BY <1>3, <2>7 DEF Allocated, Free
    <3>2. base'[s] = k /\ \A t \in Selector : t # s => base'[t] = base[t]
      BY <1>3, <3>1, SetBaseType
    <3>3. \A i \in Entries : seg_sel_map[i].sel # s
      BY <2>4, <3>1 DEF MapInv, MapSound
    <3>4. \A g \in Segments : host_map[g] # s
      BY <3>1 DEF MapInv
    <3>5. \A i, j \in Entries' : seg_sel_map'[i].seg = seg_sel_map'[j].seg => i = j
      BY <2>2, <2>3 DEF MapInv, MapSound
    <3>6. \A i \in Entries' :
            seg_sel_map'[i].sel # Bad => base'[seg_sel_map'[i].sel] = seg_sel_map'[i].seg
      <4>1. ASSUME NEW i \in Entries, seg_sel_map[i].sel # Bad
            PROVE  base'[seg_sel_map[i].sel] = seg_sel_map[i].seg
        <5>1. seg_sel_map[i].sel \in Selector /\ seg_sel_map[i].sel # s
          BY <2>4, <3>3, <4>1
        <5>2. base[seg_sel_map[i].sel] = seg_sel_map[i].seg
          BY <4>1 DEF MapInv, MapSound
        <5> QED
          BY <3>2, <5>1, <5>2
      <4> QED
        BY <2>2, <3>2, <4>1
    <3>7. \A i \in Entries', g \in Segments : seg_sel_map'[i].sel # host_map'[g]
      BY <1>0, <2>2, <3>4 DEF MapInv, MapSound
    <3>8. ASSUME NEW t \in Selector, base'[t] \in Segments
          PROVE  \/ \E i \in Entries' : seg_sel_map'[i].sel = t
                 \/ \E g \in Segments : host_map'[g] = t
      <4>1. CASE t = s
        BY <2>2, <4>1
      <4>2. CASE t # s
        <5>1. base[t] \in Segments
          BY <3>2, <3>8, <4>2
        <5>2. \/ \E i \in Entries : seg_sel_map[i].sel = t
              \/ \E g \in Segments : host_map[g] = t
          BY <5>1 DEF MapInv, MapSound
        <5> QED
          BY <1>0, <2>2, <5>2
      <4> QED
        BY <4>1, <4>2
    <3>9. \A g \in Segments : host_map'[g] # None => base'[host_map'[g]] = g
      BY <1>0, <2>5, <3>2, <3>4 DEF MapInv
    <3>10. MapSound'
      BY <3>5, <3>6, <3>7, <3>8 DEF MapSound
    <3> QED
      BY <3>1, <3>2, <3>9, <3>10 DEF MapInv, Named
  <2> QED
    BY <2>6, <2>7
<1> QED
  BY <1>1, <1>2, <1>3 DEF Convert

\* The host's conversion answers with a selector of the segment or finds the LDT full,
\* and keeps what it answered before.
LEMMA HostConvertType ==
  ASSUME TypeOK, NEW g \in Segments, NEW s \in Selector \cup {Bad}, HostConvert(g, s)
  PROVE  /\ seg_sel_map' = seg_sel_map
         /\ host_map' \in [Segments -> Selector \cup {None}]
         /\ base' \in [Selector -> Segments \cup {None, Taken}]
         /\ \A h \in Segments : host_map[h] # None => host_map'[h] = host_map[h]
         /\ \A t \in Selector : base[t] # None => base'[t] = base[t]
         /\ s \in Selector => host_map'[g] = s
         /\ s = Bad => Free = {}
<1>1. CASE host_map[g] # None /\ s = host_map[g] /\ UNCHANGED <<seg_sel_map, host_map, base>>
  BY <1>1, SegmentIsOne DEF TypeOK
<1>2. CASE host_map[g] = None /\ Free = {} /\ s = Bad /\ UNCHANGED <<seg_sel_map, host_map, base>>
  BY <1>2, SegmentIsOne DEF TypeOK
<1>3. CASE /\ host_map[g] = None /\ s \in Free /\ UNCHANGED seg_sel_map
           /\ host_map' = [host_map EXCEPT ![g] = s]
           /\ SetBase(s, g)
  <2>1. s \in Selector /\ base[s] = None /\ s # Bad
    BY <1>3, SegmentIsOne DEF Free
  <2>2. /\ base' \in [Selector -> Segments \cup {None, Taken}]
        /\ base'[s] = g /\ \A t \in Selector : t # s => base'[t] = base[t]
    BY <1>3, <2>1, SetBaseType
  <2>3. /\ host_map' \in [Segments -> Selector \cup {None}]
        /\ host_map'[g] = s /\ \A h \in Segments : h # g => host_map'[h] = host_map[h]
    BY <1>3, <2>1 DEF TypeOK
  <2> QED
    BY <1>3, <2>1, <2>2, <2>3
<1> QED
  BY <1>1, <1>2, <1>3 DEF HostConvert

\* The host's conversion keeps the maps sound.
LEMMA HostConvertSound ==
  ASSUME TypeOK, MapInv, active' \/ UNCHANGED active,
         NEW g \in Segments, NEW s \in Selector \cup {Bad}, HostConvert(g, s)
  PROVE  MapInv' /\ (s \in Selector => base'[s] = g)
<1> USE SegmentIsOne
<1>1. CASE host_map[g] # None /\ s = host_map[g] /\ UNCHANGED <<seg_sel_map, host_map, base>>
  BY <1>1 DEF MapInv, MapSound, Entries
<1>2. CASE host_map[g] = None /\ Free = {} /\ s = Bad /\ UNCHANGED <<seg_sel_map, host_map, base>>
  BY <1>2 DEF MapInv, MapSound, Entries
<1>3. CASE /\ host_map[g] = None /\ s \in Free /\ UNCHANGED seg_sel_map
           /\ host_map' = [host_map EXCEPT ![g] = s]
           /\ SetBase(s, g)
  <2>1. s \in Selector /\ base[s] = None
    BY <1>3 DEF Free
  <2>2. base'[s] = g /\ \A t \in Selector : t # s => base'[t] = base[t]
    BY <1>3, <2>1, SetBaseType
  <2>3. host_map'[g] = s /\ \A h \in Segments : h # g => host_map'[h] = host_map[h]
    BY <1>3 DEF TypeOK
  <2>4. Entries' = Entries
    BY <1>3 DEF Entries
  <2>5. \A h \in Segments : host_map[h] # s
    BY <2>1 DEF MapInv
  <2>6. \A i \in Entries : seg_sel_map[i].sel \in Selector \cup {Bad} /\ seg_sel_map[i].seg \in Segments
    BY EntryType
  <2>7. \A i \in Entries : seg_sel_map[i].sel # s
    BY <2>1, <2>6 DEF MapInv, MapSound
  <2>8. \A i, j \in Entries : seg_sel_map[i].seg = seg_sel_map[j].seg => i = j
    BY DEF MapInv, MapSound
  <2>9. \A i \in Entries : seg_sel_map[i].sel # Bad => base'[seg_sel_map[i].sel] = seg_sel_map[i].seg
    BY <2>2, <2>6, <2>7 DEF MapInv, MapSound
  <2>10. \A i \in Entries, h \in Segments : seg_sel_map[i].sel # host_map'[h]
    BY <2>3, <2>7 DEF MapInv, MapSound
  <2>11. ASSUME NEW t \in Selector, base'[t] \in Segments
         PROVE  \/ \E i \in Entries : seg_sel_map[i].sel = t
                \/ \E h \in Segments : host_map'[h] = t
    <3>1. CASE t = s
      BY <2>3, <3>1
    <3>2. CASE t # s
      <4>1. \/ \E i \in Entries : seg_sel_map[i].sel = t
            \/ \E h \in Segments : host_map[h] = t
        BY <2>2, <2>11, <3>2 DEF MapInv, MapSound
      <4>2. ASSUME NEW h \in Segments, host_map[h] = t
            PROVE  host_map'[h] = t
        BY <1>3, <2>3, <4>2
      <4> QED
        BY <4>1, <4>2
    <3> QED
      BY <3>1, <3>2
  <2>12. \A h \in Segments : host_map'[h] # None => base'[host_map'[h]] = h
    <3>1. ASSUME NEW h \in Segments, h # g, host_map[h] # None
          PROVE  base'[host_map[h]] = h
      <4>1. host_map[h] \in Selector /\ host_map[h] # s
        BY <2>5, <3>1 DEF TypeOK
      <4> QED
        BY <2>2, <3>1, <4>1 DEF MapInv
    <3> QED
      BY <2>2, <2>3, <3>1
  <2>13. MapSound'
    BY <1>3, <2>4, <2>8, <2>9, <2>10, <2>11 DEF MapSound
  <2>14. ~active' => seg_sel_map' = <<>>
    BY <1>3 DEF MapInv
  <2> QED
    BY <2>2, <2>12, <2>13, <2>14 DEF MapInv
<1> QED
  BY <1>1, <1>2, <1>3 DEF HostConvert

\* What the client gets for a selector of the host's.
LEMMA NamedType ==
  ASSUME TypeOK, base' \in [Selector -> Segments \cup {None, Taken}], NEW s \in Selector \cup {Bad}
  PROVE  /\ Named(s) \in Segments \cup {None, Taken, Bad}
         /\ s = Bad => Named(s) = Bad
         /\ s \in Selector => Named(s) = base'[s]
BY SegmentIsOne DEF Named

\* What the word of a PSP is for DOS is a segment.
LEMMA RevertedType ==
  ASSUME NEW w
  PROVE  /\ Reverted(w) \subseteq Segments
         /\ w \in Selector /\ base[w] = HomeEnv => Reverted(w) = {HomeEnv}
BY SegmentIsOne, NamesAssumption DEF Reverted, Unknown

\* What writing the converted word does to the maps and to the word.
LEMMA WriteConvertedDoes ==
  ASSUME TypeOK, MapInv, active' \/ UNCHANGED active, NEW g \in Segments, WriteConverted(g)
  PROVE  /\ MapInv'
         /\ seg_sel_map' = seg_sel_map
         /\ host_map' \in [Segments -> Selector \cup {None}]
         /\ base' \in [Selector -> Segments \cup {None, Taken}]
         /\ env' \in [LowPsp \cup HighPsp -> Word]
         /\ \A h \in Segments : host_map[h] # None => host_map'[h] = host_map[h]
         /\ \E v \in Word :
              /\ env' = [env EXCEPT ![dos_psp] = v]
              /\ g # Zero => v \in Selector \cup {Bad} /\ (v \in Selector => host_map'[g] = v)
<1>1. CASE g = Zero /\ write_env_sel(g) /\ UNCHANGED ldtVars
  <2>1. Zero \in Word
    BY SegmentIsOne DEF Word
  <2>2. MapInv'
    BY <1>1 DEF ldtVars, MapInv, MapSound, Entries
  <2>3. env' \in [LowPsp \cup HighPsp -> Word]
    BY <1>1, <2>1 DEF write_env_sel, TypeOK
  <2> QED
    BY <1>1, <2>1, <2>2, <2>3 DEF write_env_sel, ldtVars, TypeOK
<1>2. CASE g # Zero /\ \E s \in Selector \cup {Bad} : HostConvert(g, s) /\ write_env_sel(s)
  <2>1. PICK s \in Selector \cup {Bad} : HostConvert(g, s) /\ write_env_sel(s)
    BY <1>2
  <2>2. s \in Word
    BY DEF Word
  <2>3. env' \in [LowPsp \cup HighPsp -> Word]
    BY <2>1, <2>2 DEF write_env_sel, TypeOK
  <2>4. MapInv'
    BY <2>1, HostConvertSound
  <2>5. /\ seg_sel_map' = seg_sel_map
        /\ host_map' \in [Segments -> Selector \cup {None}]
        /\ base' \in [Selector -> Segments \cup {None, Taken}]
        /\ \A h \in Segments : host_map[h] # None => host_map'[h] = host_map[h]
        /\ s \in Selector => host_map'[g] = s
    BY <2>1, HostConvertType
  <2>6. env' = [env EXCEPT ![dos_psp] = s]
    BY <2>1 DEF write_env_sel
  <2> QED
    BY <2>2, <2>3, <2>4, <2>5, <2>6
<1> QED
  BY <1>1, <1>2 DEF WriteConverted

\* What others do to the LDT keeps the maps sound, and the host's answers while there is
\* a client.
LEMMA OthersKeep ==
  ASSUME TypeOK, MapInv, OthersUseLdt
  PROVE  /\ MapInv'
         /\ host_map' \in [Segments -> Selector \cup {None}]
         /\ base' \in [Selector -> Segments \cup {None, Taken}]
         /\ active => host_map' = host_map
<1> USE SegmentIsOne
<1>0. UNCHANGED <<active, seg_sel_map>> /\ Entries' = Entries
  BY DEF OthersUseLdt, Entries
<1>1. \A i \in Entries : seg_sel_map[i].sel \in Selector \cup {Bad} /\ seg_sel_map[i].seg \in Segments
  BY EntryType
<1>2. \A g \in Segments : host_map[g] \in Selector \cup {None}
  BY DEF TypeOK
<1>3. PICK s \in Selector :
        \/ base[s] = None /\ SetBase(s, Taken) /\ UNCHANGED host_map
        \/ base[s] = Taken /\ SetBase(s, None) /\ UNCHANGED host_map
        \/ /\ ~active
           /\ \E g \in Segments : host_map[g] = s /\ host_map' = [host_map EXCEPT ![g] = None]
           /\ SetBase(s, None)
  BY DEF OthersUseLdt
<1>4. CASE /\ base[s] \notin Segments /\ UNCHANGED host_map
           /\ SetBase(s, Taken) \/ SetBase(s, None)
  <2>1. /\ base' \in [Selector -> Segments \cup {None, Taken}]
        /\ base'[s] \notin Segments /\ \A t \in Selector : t # s => base'[t] = base[t]
    <3>1. CASE SetBase(s, Taken)
      BY <3>1, SetBaseType
    <3>2. CASE SetBase(s, None)
      BY <3>2, SetBaseType
    <3> QED
      BY <1>4, <3>1, <3>2
  <2>2. \A i \in Entries : seg_sel_map[i].sel # s
    BY <1>1, <1>4 DEF MapInv, MapSound
  <2>3. \A g \in Segments : host_map[g] # s
    BY <1>4 DEF MapInv
  <2>4. \A i \in Entries : seg_sel_map[i].sel # Bad => base'[seg_sel_map[i].sel] = seg_sel_map[i].seg
    BY <1>1, <2>1, <2>2 DEF MapInv, MapSound
  <2>5. \A t \in Selector : base'[t] \in Segments =>
          \/ \E i \in Entries : seg_sel_map[i].sel = t
          \/ \E g \in Segments : host_map[g] = t
    BY <2>1 DEF MapInv, MapSound
  <2>6. \A g \in Segments : host_map[g] # None => base'[host_map[g]] = g
    BY <1>2, <2>1, <2>3 DEF MapInv
  <2>7. MapSound'
    <3>1. \A i, j \in Entries : seg_sel_map[i].seg = seg_sel_map[j].seg => i = j
      BY DEF MapInv, MapSound
    <3>2. \A i \in Entries, g \in Segments : seg_sel_map[i].sel # host_map[g]
      BY DEF MapInv, MapSound
    <3> QED
      BY <1>0, <1>4, <2>4, <2>5, <3>1, <3>2 DEF MapSound
  <2> QED
    BY <1>0, <1>4, <2>1, <2>6, <2>7 DEF MapInv, TypeOK
<1>5. ASSUME ~active, NEW g \in Segments, host_map[g] = s,
             host_map' = [host_map EXCEPT ![g] = None], SetBase(s, None)
      PROVE  /\ MapInv'
             /\ host_map' \in [Segments -> Selector \cup {None}]
             /\ base' \in [Selector -> Segments \cup {None, Taken}]
  <2>1. /\ base' \in [Selector -> Segments \cup {None, Taken}]
        /\ base'[s] = None /\ \A t \in Selector : t # s => base'[t] = base[t]
    BY <1>5, SetBaseType
  <2>2. /\ host_map' \in [Segments -> Selector \cup {None}]
        /\ host_map'[g] = None /\ \A h \in Segments : h # g => host_map'[h] = host_map[h]
    BY <1>5 DEF TypeOK
  <2>3. seg_sel_map = <<>> /\ Entries = {}
    BY <1>5 DEF MapInv, Entries
  <2>4. base[s] = g
    BY <1>5 DEF MapInv
  <2>5. \A h \in Segments : h # g => host_map[h] # s
    BY <2>4 DEF MapInv
  <2>6. \A h \in Segments : host_map'[h] # None => base'[host_map'[h]] = h
    <3>1. ASSUME NEW h \in Segments, h # g, host_map[h] # None
          PROVE  base'[host_map[h]] = h
      <4>1. host_map[h] \in Selector /\ host_map[h] # s
        BY <1>2, <2>5, <3>1
      <4> QED
        BY <2>1, <3>1, <4>1 DEF MapInv
    <3> QED
      BY <2>2, <3>1
  <2>7. ASSUME NEW t \in Selector, base'[t] \in Segments
        PROVE  \E h \in Segments : host_map'[h] = t
    <3>1. t # s /\ base[t] \in Segments
      BY <2>1, <2>7
    <3>2. PICK h \in Segments : host_map[h] = t
      BY <2>3, <3>1 DEF MapInv, MapSound
    <3>3. h # g
      BY <1>5, <3>1, <3>2
    <3> QED
      BY <2>2, <3>2, <3>3
  <2> QED
    BY <1>0, <2>1, <2>2, <2>3, <2>6, <2>7 DEF MapInv, MapSound
<1> QED
  BY <1>3, <1>4, <1>5

-----------------------------------------------------------------------------
(* The invariant: types, maps and environment words.                       *)

IInv == TypeOK /\ MapInv /\ EnvInv

LEMMA InitInv == Init => IInv
<1> SUFFICES ASSUME Init PROVE IInv
  OBVIOUS
<1> USE SegmentIsOne
<1>1. env \in [LowPsp \cup HighPsp -> Word] /\ Home \in LowPsp
  BY DEF Init, Word, LowPsp
<1>2. seg_sel_map \in Seq([seg : Key, sel : Selector \cup {Bad}]) /\ Len(seg_sel_map) <= MapSize
  BY MapSizeAssumption DEF Init
<1>3. /\ host_map \in [Segments -> Selector \cup {None}]
      /\ base \in [Selector -> Segments \cup {None, Taken}]
  BY DEF Init
<1>4. TypeOK
  BY <1>1, <1>2, <1>3 DEF Init, TypeOK
<1>5. MapInv
  <2>1. Entries = {} /\ \A s \in Selector : base[s] \notin Segments
    BY DEF Init, Entries
  <2> QED
    BY <2>1 DEF Init, MapInv, MapSound
<1> QED
  BY <1>4, <1>5 DEF Init, IInv, EnvInv

\* A client starts: its environment is converted, or none of its PSPs has the word.
LEMMA InitStep ==
  ASSUME IInv, msdos_init
  PROVE  IInv'
<1> USE DEF IInv
<1>1. dos_psp = Home /\ env[dos_psp] = HomeEnv /\ own = {Home} /\ active'
  BY DEF EnvInv, msdos_init
<1>2. HomeEnv \in Segments /\ HomeEnv # Zero /\ WriteConverted(HomeEnv)
  BY <1>1, SegmentIsOne DEF msdos_init
<1>3. /\ MapInv'
      /\ seg_sel_map' = seg_sel_map
      /\ host_map' \in [Segments -> Selector \cup {None}]
      /\ base' \in [Selector -> Segments \cup {None, Taken}]
      /\ env' \in [LowPsp \cup HighPsp -> Word]
  BY <1>1, <1>2, WriteConvertedDoes
<1>4. PICK v \in Word :
        /\ env' = [env EXCEPT ![dos_psp] = v]
        /\ v \in Selector \cup {Bad} /\ (v \in Selector => host_map'[HomeEnv] = v)
  BY <1>1, <1>2, WriteConvertedDoes
<1>5. env'[Home] = v /\ Home \in LowPsp
  BY <1>1, <1>4 DEF TypeOK, LowPsp
<1>6. EnvInv'
  <2>1. CASE v = Bad
    BY <1>1, <1>5, <2>1 DEF msdos_init, EnvInv
  <2>2. CASE v \in Selector
    <3>1. own' = {Home}
      BY <1>1, <1>5, <2>2, SegmentIsOne DEF msdos_init
    <3> QED
      BY <1>1, <1>4, <1>5, <2>2, <3>1 DEF EnvInv
  <2> QED
    BY <1>4, <2>1, <2>2
<1>7. TypeOK'
  BY <1>1, <1>3 DEF msdos_init, TypeOK
<1> QED
  BY <1>3, <1>6, <1>7

\* A program exits: every descriptor that the translator made is given back.
LEMMA DoneStep ==
  ASSUME IInv, msdos_done
  PROVE  IInv'
<1> USE DEF IInv
<1> USE SegmentIsOne
<1>1. Entries' = {} /\ seg_sel_map' = <<>> /\ host_map' = host_map /\ active' = FALSE
  BY DEF msdos_done, Entries
<1>2. /\ base' \in [Selector -> Segments \cup {None, Taken}]
      /\ \A s \in Selector : base'[s] = IF s \in Freed THEN None ELSE base[s]
  BY DEF msdos_done, TypeOK
<1>3. \A g \in Segments : host_map[g] \notin Freed
  BY DEF Freed, MapInv, MapSound
<1>4. \A s \in Selector : base'[s] \in Segments => \E g \in Segments : host_map[g] = s
  BY <1>2 DEF Freed, MapInv, MapSound
<1>5. MapInv'
  <2>1. \A g \in Segments : host_map[g] # None => host_map[g] \in Selector /\ base[host_map[g]] = g
    BY DEF MapInv, TypeOK
  <2>2. \A g \in Segments : host_map[g] # None => base'[host_map[g]] = g
    BY <1>2, <1>3, <2>1
  <2> QED
    BY <1>1, <1>4, <2>2 DEF MapInv, MapSound
<1>6. env' \in [LowPsp \cup HighPsp -> Word] /\ env'[Home] = HomeEnv
  BY DEF msdos_done, TypeOK, Word, LowPsp
<1>7. EnvInv'
  BY <1>1, <1>6 DEF msdos_done, EnvInv
<1>8. answer' \in Segments
  BY RevertedType DEF msdos_done
<1>9. /\ seg_sel_map' \in Seq([seg : Key, sel : Selector \cup {Bad}]) /\ Len(seg_sel_map') <= MapSize
      /\ own' \in SUBSET (LowPsp \cup HighPsp)
  BY <1>1, MapSizeAssumption DEF msdos_done, LowPsp
<1>10. /\ dos_dta' \in LowDta
       /\ UNCHANGED <<dos_psp, userVars, setVars, host_map>>
  BY DEF msdos_done
<1>11. TypeOK'
  BY <1>1, <1>2, <1>6, <1>8, <1>9, <1>10 DEF TypeOK, userVars, setVars
<1> QED
  BY <1>5, <1>7, <1>11

\* What EXEC reads is the client's environment, if the PSP has its word, and it writes
\* the selector back that the host had made of it.
LEMMA ExecStep ==
  ASSUME IInv, Exec
  PROVE  /\ IInv'
         /\ dos_psp \in own => answer' = HomeEnv
<1> USE DEF IInv
<1> USE SegmentIsOne
<1>1. answer' \in Segments /\ active /\ active' /\ UNCHANGED <<dos_psp, own>>
  BY RevertedType DEF Exec
<1>2. WriteConverted(answer')
  BY DEF Exec
<1>3. /\ MapInv'
      /\ seg_sel_map' = seg_sel_map
      /\ host_map' \in [Segments -> Selector \cup {None}]
      /\ base' \in [Selector -> Segments \cup {None, Taken}]
      /\ env' \in [LowPsp \cup HighPsp -> Word]
      /\ \A h \in Segments : host_map[h] # None => host_map'[h] = host_map[h]
  BY <1>1, <1>2, WriteConvertedDoes
<1>4. PICK v \in Word :
        /\ env' = [env EXCEPT ![dos_psp] = v]
        /\ answer' # Zero => v \in Selector \cup {Bad} /\ (v \in Selector => host_map'[answer'] = v)
  BY <1>1, <1>2, WriteConvertedDoes
<1>5. ASSUME dos_psp \in own
      PROVE  /\ answer' = HomeEnv
             /\ host_map[HomeEnv] = env[dos_psp] /\ env[dos_psp] \in Selector
  <2>1. env[dos_psp] \in Selector /\ host_map[HomeEnv] = env[dos_psp]
    BY <1>1, <1>5 DEF EnvInv
  <2>2. base[env[dos_psp]] = HomeEnv
    BY <2>1 DEF MapInv
  <2> QED
    BY <2>1, <2>2, RevertedType DEF Exec
<1>6. EnvInv'
  <2>1. CASE dos_psp \in own
    <3>1. host_map'[HomeEnv] = host_map[HomeEnv] /\ host_map[HomeEnv] \in Selector
      BY <1>3, <1>5, <2>1
    <3>2. v = host_map[HomeEnv]
      <4>1. \E s \in Selector \cup {Bad} : HostConvert(HomeEnv, s) /\ write_env_sel(s)
        BY <1>2, <1>5, <2>1 DEF WriteConverted
      <4>2. env' = [env EXCEPT ![dos_psp] = host_map[HomeEnv]]
        BY <3>1, <4>1 DEF HostConvert, write_env_sel
      <4>3. env'[dos_psp] = host_map[HomeEnv] /\ env'[dos_psp] = v
        BY <1>4, <4>2 DEF TypeOK
      <4> QED
        BY <4>3
    <3>3. env' = env
      BY <1>4, <1>5, <2>1, <3>2 DEF TypeOK
    <3> QED
      BY <1>1, <3>1, <3>3 DEF EnvInv
  <2>2. CASE dos_psp \notin own
    <3>1. ASSUME NEW p \in own
          PROVE  env'[p] = env[p] /\ env[p] \in Selector /\ host_map'[HomeEnv] = env[p]
      <4>1. env[p] \in Selector /\ host_map[HomeEnv] = env[p]
        BY <1>1, <3>1 DEF EnvInv
      <4>2. host_map'[HomeEnv] = env[p]
        BY <1>3, <4>1
      <4>3. env'[p] = env[p]
        BY <1>4, <2>2, <3>1 DEF TypeOK
      <4> QED
        BY <4>1, <4>2, <4>3
    <3> QED
      BY <1>1, <3>1 DEF EnvInv
  <2> QED
    BY <2>1, <2>2
<1>7. TypeOK'
  BY <1>1, <1>3 DEF Exec, TypeOK, userVars
<1> QED
  BY <1>3, <1>5, <1>6, <1>7

\* A PSP takes another's word: the client's, if that has it.
LEMMA CopyKeeps ==
  ASSUME TypeOK, EnvInv, active, UNCHANGED <<active, host_map>>,
         NEW p \in LowPsp \cup HighPsp, NEW q \in LowPsp \cup HighPsp, CopyEnv(p, q)
  PROVE  /\ EnvInv'
         /\ env' \in [LowPsp \cup HighPsp -> Word]
         /\ own' \in SUBSET (LowPsp \cup HighPsp)
BY DEF CopyEnv, EnvInv, TypeOK

\* Making, setting and leaving PSPs keeps the invariant.
LEMMA PspStep ==
  ASSUME IInv,
         \/ \E p \in LowPsp \cup HighPsp : SetPsp(p) \/ PspKill(p)
         \/ \E p \in NewPsps : CreatePsp(p) \/ CreateAndSetPsp(p)
  PROVE  IInv'
<1> USE DEF IInv
<1>1. UNCHANGED <<active, dos_dta, user_dta, ldtVars, set_dta>> /\ active /\ answer' = None
  BY DEF SetPsp, PspKill, CreatePsp, CreateAndSetPsp, pspOnly
<1>2. MapInv'
  BY <1>1 DEF MapInv, MapSound, Entries, ldtVars
<1>3. dos_psp \in LowPsp /\ NewPsps \subseteq LowPsp \cup HighPsp
  BY DEF TypeOK, NewPsps, LowPsp
<1>4. ASSUME NEW p \in LowPsp \cup HighPsp, SetPsp(p)
      PROVE  /\ EnvInv' /\ env' \in [LowPsp \cup HighPsp -> Word]
             /\ own' \in SUBSET (LowPsp \cup HighPsp)
             /\ dos_psp' \in LowPsp /\ user_psp_sel' \in HighPsp \cup {None}
             /\ set_psp' \in LowPsp \cup HighPsp \cup {None}
  <2>1. CASE p \in HighPsp
    <3>1. CopyEnv(p, dos_psp) /\ dos_psp' = dos_psp
      BY <1>4, <2>1 DEF SetPsp
    <3>2. /\ EnvInv' /\ env' \in [LowPsp \cup HighPsp -> Word]
          /\ own' \in SUBSET (LowPsp \cup HighPsp)
      BY <1>1, <1>3, <3>1, CopyKeeps DEF ldtVars
    <3> QED
      BY <1>3, <1>4, <3>1, <3>2 DEF SetPsp, UserPsp
  <2>2. CASE p \notin HighPsp
    BY <1>1, <1>4, <2>2 DEF SetPsp, UserPsp, EnvInv, TypeOK, ldtVars
  <2> QED
    BY <2>1, <2>2
<1>5. ASSUME NEW w \in LowPsp \cup HighPsp, PspKill(w)
      PROVE  /\ EnvInv' /\ env' \in [LowPsp \cup HighPsp -> Word]
             /\ own' \in SUBSET (LowPsp \cup HighPsp)
             /\ dos_psp' \in LowPsp /\ user_psp_sel' \in HighPsp \cup {None}
             /\ set_psp' \in LowPsp \cup HighPsp \cup {None}
  BY <1>1, <1>5 DEF PspKill, Parent, EnvInv, TypeOK, ldtVars, Word
<1>6. ASSUME NEW p \in NewPsps, CreatePsp(p) \/ CreateAndSetPsp(p)
      PROVE  /\ EnvInv' /\ env' \in [LowPsp \cup HighPsp -> Word]
             /\ own' \in SUBSET (LowPsp \cup HighPsp)
             /\ dos_psp' \in LowPsp /\ user_psp_sel' \in HighPsp \cup {None}
             /\ set_psp' \in LowPsp \cup HighPsp \cup {None}
  <2>1. CopyEnv(dos_psp, p)
    BY <1>6 DEF CreatePsp, CreateAndSetPsp
  <2>2. /\ EnvInv' /\ env' \in [LowPsp \cup HighPsp -> Word]
        /\ own' \in SUBSET (LowPsp \cup HighPsp)
    BY <1>1, <1>3, <2>1, CopyKeeps DEF ldtVars
  <2> QED
    BY <1>3, <1>6, <2>2 DEF CreatePsp, CreateAndSetPsp, UserPsp, TypeOK, NewPsps
<1>7. /\ EnvInv' /\ env' \in [LowPsp \cup HighPsp -> Word]
      /\ own' \in SUBSET (LowPsp \cup HighPsp)
      /\ dos_psp' \in LowPsp /\ user_psp_sel' \in HighPsp \cup {None}
      /\ set_psp' \in LowPsp \cup HighPsp \cup {None}
  BY <1>4, <1>5, <1>6
<1>8. TypeOK'
  BY <1>1, <1>7 DEF TypeOK, ldtVars
<1> QED
  BY <1>2, <1>7, <1>8

\* AH=51h keeps the invariant, and names a PSP above 1MB, or converts the current one's.
LEMMA GetPspStep ==
  ASSUME IInv, GetPsp
  PROVE  /\ IInv'
         /\ user_psp_sel = None =>
              \/ answer' = dos_psp
              \/ answer' \in {None, Bad} /\ Unnamed(dos_psp)
<1> USE DEF IInv
<1> USE SegmentIsOne
<1>1. active /\ active' /\ mapsOnly
  BY DEF GetPsp, mapsOnly
<1>2. CASE user_psp_sel # None
  <2>1. answer' = user_psp_sel /\ UNCHANGED ldtVars
    BY <1>2 DEF GetPsp
  <2>2. MapInv'
    BY <1>1, <2>1 DEF MapInv, MapSound, Entries, ldtVars
  <2>3. EnvInv'
    BY <1>1, <2>1 DEF EnvInv, mapsOnly, dosVars, ldtVars
  <2>4. TypeOK'
    BY <1>1, <1>2, <2>1 DEF TypeOK, mapsOnly, dosVars, userVars, setVars, ldtVars
  <2> QED
    BY <1>2, <2>2, <2>3, <2>4
<1>3. CASE user_psp_sel = None
  <2>1. PICK s \in Selector \cup {None, Bad} : Convert(dos_psp, s) /\ answer' = Named(s)
    BY <1>3 DEF GetPsp
  <2>2. dos_psp \in Key /\ dos_psp \in Segments
    BY DEF TypeOK, Key
  <2>3. /\ MapInv'
        /\ \/ answer' = dos_psp
           \/ answer' \in {None, Bad} /\ Unnamed(dos_psp)
    BY <1>1, <2>1, <2>2, ConvertSound
  <2>4. /\ seg_sel_map' \in Seq([seg : Key, sel : Selector \cup {Bad}])
        /\ Len(seg_sel_map') <= MapSize
        /\ base' \in [Selector -> Segments \cup {None, Taken}]
        /\ host_map' = host_map
    BY <2>1, <2>2, ConvertType
  <2>5. EnvInv'
    BY <1>1, <2>4 DEF EnvInv, mapsOnly, dosVars
  <2>6. TypeOK'
    BY <1>1, <2>2, <2>3, <2>4 DEF TypeOK, mapsOnly, dosVars, userVars, setVars
  <2> QED
    BY <2>3, <2>5, <2>6
<1> QED
  BY <1>2, <1>3

LEMMA SelFaultStep ==
  ASSUME IInv, SelFault
  PROVE  IInv'
<1> USE DEF IInv
<1>1. active /\ active' /\ mapsOnly /\ answer' = None
  BY DEF SelFault, mapsOnly
<1>2. /\ MapInv'
      /\ seg_sel_map' \in Seq([seg : Key, sel : Selector \cup {Bad}])
      /\ Len(seg_sel_map') <= MapSize
      /\ base' \in [Selector -> Segments \cup {None, Taken}]
      /\ host_map' \in [Segments -> Selector \cup {None}]
      /\ \A h \in Segments : host_map[h] # None => host_map'[h] = host_map[h]
  <2>1. CASE \E s \in Selector \cup {None, Bad} : Convert(Zero, s)
    <3>1. PICK s \in Selector \cup {None, Bad} : Convert(Zero, s)
      BY <2>1
    <3>2. Zero \in Key
      BY DEF Key
    <3>3. MapInv'
      BY <1>1, <3>1, <3>2, ConvertSound
    <3>4. /\ seg_sel_map' \in Seq([seg : Key, sel : Selector \cup {Bad}])
          /\ Len(seg_sel_map') <= MapSize
          /\ base' \in [Selector -> Segments \cup {None, Taken}]
          /\ host_map' = host_map
      BY <3>1, <3>2, ConvertType
    <3> QED
      BY <3>3, <3>4 DEF TypeOK
  <2>2. CASE \E g \in Segments, s \in Selector \cup {Bad} : HostConvert(g, s)
    <3>1. PICK g \in Segments, s \in Selector \cup {Bad} : HostConvert(g, s)
      BY <2>2
    <3>2. MapInv'
      BY <1>1, <3>1, HostConvertSound
    <3>3. seg_sel_map' = seg_sel_map
      BY <3>1, HostConvertType
    <3>4. /\ base' \in [Selector -> Segments \cup {None, Taken}]
          /\ host_map' \in [Segments -> Selector \cup {None}]
          /\ \A h \in Segments : host_map[h] # None => host_map'[h] = host_map[h]
      BY <3>1, HostConvertType
    <3> QED
      BY <3>2, <3>3, <3>4 DEF TypeOK
  <2> QED
    BY <2>1, <2>2 DEF SelFault
<1>6. EnvInv'
  BY <1>1, <1>2, SegmentIsOne
     DEF EnvInv, mapsOnly, dosVars
<1>7. TypeOK'
  BY <1>1, <1>2 DEF TypeOK, mapsOnly, dosVars, userVars, setVars
<1> QED
  BY <1>2, <1>6, <1>7

\* AH=2Fh keeps the invariant, and converts DOS's DTA if that is not the stand-in.
LEMMA GetDtaStep ==
  ASSUME IInv, GetDta
  PROVE  /\ IInv'
         /\ dos_dta # StandIn => answer' = dos_dta \/ (answer' = Bad /\ Free = {})
<1> USE DEF IInv
<1> USE SegmentIsOne
<1>1. active /\ active' /\ mapsOnly
  BY DEF GetDta, mapsOnly
<1>2. CASE dos_dta = StandIn
  <2>1. answer' = user_dta /\ UNCHANGED ldtVars
    BY <1>2 DEF GetDta, DtaIsTranslated
  <2>2. MapInv'
    BY <1>1, <2>1 DEF MapInv, MapSound, Entries, ldtVars
  <2>3. EnvInv'
    BY <1>1, <2>1 DEF EnvInv, mapsOnly, dosVars, ldtVars
  <2>4. TypeOK'
    BY <1>1, <2>1 DEF TypeOK, mapsOnly, dosVars, userVars, setVars, ldtVars
  <2> QED
    BY <1>2, <2>2, <2>3, <2>4
<1>3. CASE dos_dta # StandIn
  <2>1. PICK s \in Selector \cup {Bad} : HostConvert(dos_dta, s) /\ answer' = Named(s)
    BY <1>3 DEF GetDta, DtaIsTranslated
  <2>2. dos_dta \in Segments
    BY <1>3 DEF TypeOK
  <2>3. MapInv' /\ (s \in Selector => base'[s] = dos_dta)
    BY <1>1, <2>1, <2>2, HostConvertSound
  <2>4. /\ seg_sel_map' = seg_sel_map
        /\ host_map' \in [Segments -> Selector \cup {None}]
        /\ base' \in [Selector -> Segments \cup {None, Taken}]
        /\ \A h \in Segments : host_map[h] # None => host_map'[h] = host_map[h]
        /\ s = Bad => Free = {}
    BY <2>1, <2>2, HostConvertType
  <2>5. answer' = dos_dta \/ (answer' = Bad /\ Free = {})
    BY <2>1, <2>3, <2>4, NamedType
  <2>6. EnvInv'
    <3>1. ASSUME NEW p \in own
          PROVE  env[p] \in Selector /\ host_map'[HomeEnv] = env[p]
      BY <1>1, <2>4, <3>1 DEF EnvInv
    <3> QED
      BY <1>1, <3>1 DEF EnvInv, mapsOnly, dosVars
  <2>7. TypeOK'
    BY <1>1, <2>2, <2>4, <2>5 DEF TypeOK, mapsOnly, dosVars, userVars, setVars
  <2> QED
    BY <2>3, <2>5, <2>6, <2>7
<1> QED
  BY <1>2, <1>3

LEMMA NextInv ==
  ASSUME IInv, [Next]_vars
  PROVE  IInv'
<1> USE DEF IInv
<1>1. ASSUME NEW d \in LowDta \cup HighDta, SetDta(d)
      PROVE  IInv'
  <2>1. MapInv'
    BY <1>1 DEF SetDta, MapInv, MapSound, Entries, ldtVars
  <2>2. EnvInv'
    BY <1>1 DEF SetDta, EnvInv, ldtVars
  <2>3. TypeOK'
    BY <1>1 DEF SetDta, UserDta, TypeOK, ldtVars
  <2> QED
    BY <2>1, <2>2, <2>3
<1>2. CASE OthersUseLdt
  <2>1. /\ MapInv'
        /\ host_map' \in [Segments -> Selector \cup {None}]
        /\ base' \in [Selector -> Segments \cup {None, Taken}]
        /\ active => host_map' = host_map
    BY <1>2, OthersKeep
  <2>2. EnvInv'
    BY <1>2, <2>1 DEF OthersUseLdt, EnvInv, dosVars
  <2>3. TypeOK'
    BY <1>2, <2>1 DEF OthersUseLdt, TypeOK, dosVars, userVars, setVars
  <2> QED
    BY <2>1, <2>2, <2>3
<1>3. CASE UNCHANGED vars
  <2>1. MapInv' /\ EnvInv'
    BY <1>3 DEF vars, dosVars, ldtVars, MapInv, MapSound, Entries, EnvInv
  <2>2. TypeOK'
    BY <1>3 DEF vars, dosVars, userVars, ldtVars, setVars, TypeOK
  <2> QED
    BY <2>1, <2>2
<1> QED
  BY <1>1, <1>2, <1>3, InitStep, DoneStep, ExecStep, PspStep, GetPspStep, SelFaultStep,
     GetDtaStep DEF Next

LEMMA Invariant == Spec => []IInv
BY InitInv, NextInv, PTL DEF Spec

\* Every variable keeps its type: a query never answers with a stand-in, nor with a
\* descriptor that somebody else has.
THEOREM DataTypeCorrect == Spec => []TypeOK
<1>1. IInv => TypeOK
  BY DEF IInv
<1> QED
  BY <1>1, Invariant, PTL

\* The map holds each segment once with a descriptor of that base that is nobody else's,
\* and no descriptor is lost, for a map and an LDT of any size.
THEOREM MapAlwaysSound == Spec => []MapSound
<1>1. IInv => MapSound
  BY DEF IInv, MapInv
<1> QED
  BY <1>1, Invariant, PTL

\* DOS finds a segment in the environment word of every PSP that has the client's, and
\* the client a selector of it, whatever is done at other programs' PSPs.
THEOREM EnvAlwaysPassed == Spec => EnvPassed
<1>1. ASSUME IInv, IInv', [Next]_vars
      PROVE  [/\ (Exec \/ msdos_done) /\ dos_psp \in own => answer' = HomeEnv
              /\ active' => \A p \in own' : HasSelector(p)']_vars
  <2>1. ASSUME msdos_done, dos_psp \in own
        PROVE  answer' = HomeEnv
    <3>1. env[dos_psp] \in Selector /\ host_map[HomeEnv] = env[dos_psp]
      BY <1>1, <2>1 DEF IInv, EnvInv, msdos_done
    <3>2. base[env[dos_psp]] = HomeEnv
      BY <1>1, <3>1, SegmentIsOne DEF IInv, MapInv
    <3> QED
      BY <2>1, <3>1, <3>2, RevertedType DEF msdos_done
  <2>2. ASSUME active', NEW p \in own'
        PROVE  HasSelector(p)'
    BY <1>1, <2>2, SegmentIsOne DEF IInv, EnvInv, MapInv, HasSelector
  <2> QED
    BY <1>1, <2>1, <2>2, ExecStep
<1> QED
  BY <1>1, Invariant, PTL DEF Spec, EnvPassed

-----------------------------------------------------------------------------
(* The PSP and the DTA.                                                    *)

LEMMA PspOfStep ==
  ASSUME TypeOK, PspInv, [Next]_vars
  PROVE  PspInv'
<1>1. None \notin HighPsp /\ None \notin LowPsp /\ LowPsp \cap HighPsp = {}
  BY NamesAssumption, SegmentIsOne
<1>2. CASE msdos_init
  BY <1>1, <1>2 DEF msdos_init, PspInv, TypeOK
<1>3. CASE msdos_done
  BY <1>3 DEF msdos_done, PspInv
<1>4. CASE UNCHANGED <<active, set_psp, user_psp_sel, dos_psp>>
  BY <1>4 DEF PspInv
<1>5. ASSUME NEW p \in LowPsp \cup HighPsp, SetPsp(p)
      PROVE  PspInv'
  BY <1>1, <1>5 DEF SetPsp, UserPsp, PspInv
<1>6. ASSUME NEW w \in LowPsp \cup HighPsp, PspKill(w)
      PROVE  PspInv'
  BY <1>1, <1>6 DEF PspKill, Parent, PspInv, TypeOK
<1>7. ASSUME NEW p \in NewPsps, CreatePsp(p) \/ CreateAndSetPsp(p)
      PROVE  PspInv'
  BY <1>1, <1>7 DEF CreatePsp, CreateAndSetPsp, UserPsp, pspOnly, PspInv
<1>8. ASSUME NEW d \in LowDta \cup HighDta, SetDta(d)
      PROVE  PspInv'
  BY <1>4, <1>8 DEF SetDta
<1>9. CASE Exec \/ GetPsp \/ SelFault \/ GetDta \/ OthersUseLdt \/ UNCHANGED vars
  BY <1>4, <1>9 DEF Exec, GetPsp, SelFault, GetDta, OthersUseLdt, mapsOnly, vars, dosVars,
     userVars, setVars
<1> QED
  BY <1>2, <1>3, <1>5, <1>6, <1>7, <1>8, <1>9 DEF Next

\* AH=51h names the PSP that the client is at, unless the map or the LDT is full, or was
\* when the PSP was converted first.
THEOREM PspAlwaysAnswered == Spec => PspAnswered
<1>1. Init => PspInv
  BY DEF Init, PspInv
<1>2. ASSUME IInv, PspInv, GetPsp, set_psp # None
      PROVE  \/ answer' = set_psp
             \/ answer' \in {None, Bad} /\ set_psp \in LowPsp /\ Unnamed(set_psp)
  <2>1. CASE set_psp \in HighPsp
    <3>1. user_psp_sel = set_psp /\ user_psp_sel # None
      BY <1>2, <2>1 DEF GetPsp, PspInv
    <3> QED
      BY <1>2, <3>1 DEF GetPsp
  <2>2. CASE set_psp \notin HighPsp
    <3>1. user_psp_sel = None /\ dos_psp = set_psp /\ dos_psp \in LowPsp
      BY <1>2, <2>2 DEF GetPsp, PspInv, IInv, TypeOK
    <3> QED
      BY <1>2, <3>1, GetPspStep
  <2> QED
    BY <2>1, <2>2
<1>3. IInv /\ PspInv =>
        [GetPsp /\ set_psp # None =>
           \/ answer' = set_psp
           \/ answer' \in {None, Bad} /\ set_psp \in LowPsp /\ Unnamed(set_psp)]_vars
  BY <1>2
<1>4. Spec => []PspInv
  BY <1>1, PspOfStep, DataTypeCorrect, PTL DEF Spec
<1> QED
  BY <1>3, <1>4, Invariant, PTL DEF PspAnswered

LEMMA DtaOfStep ==
  ASSUME TypeOK, DtaInv, [Next]_vars
  PROVE  DtaInv'
<1>1. None \notin HighDta /\ StandIn \notin LowDta /\ LowDta \cap HighDta = {}
  BY NamesAssumption
<1>2. CASE msdos_init
  BY <1>2 DEF msdos_init, DtaInv
<1>3. CASE msdos_done
  BY <1>1, <1>3 DEF msdos_done, DtaInv
<1>4. CASE Exec
  BY <1>1, <1>4 DEF Exec, DtaInv, userVars
<1>5. CASE UNCHANGED <<active, dos_dta, user_dta, set_dta>>
  BY <1>5 DEF DtaInv
<1>6. ASSUME NEW d \in LowDta \cup HighDta, SetDta(d)
      PROVE  DtaInv'
  BY <1>1, <1>6 DEF SetDta, UserDta, DtaInv
<1>7. ASSUME NEW p \in LowPsp \cup HighPsp, SetPsp(p) \/ PspKill(p)
      PROVE  DtaInv'
  BY <1>5, <1>7 DEF SetPsp, PspKill, pspOnly
<1>8. ASSUME NEW p \in NewPsps, CreatePsp(p) \/ CreateAndSetPsp(p)
      PROVE  DtaInv'
  BY <1>5, <1>8 DEF CreatePsp, CreateAndSetPsp, pspOnly
<1>9. CASE GetPsp \/ SelFault \/ GetDta \/ OthersUseLdt \/ UNCHANGED vars
  BY <1>5, <1>9 DEF GetPsp, SelFault, GetDta, OthersUseLdt, mapsOnly, vars, dosVars,
     userVars, setVars
<1> QED
  BY <1>2, <1>3, <1>4, <1>6, <1>7, <1>8, <1>9 DEF Next

\* AH=2Fh names the place where results are left, unless that is below 1MB and there is
\* no descriptor for it; and it is what the client set.
THEOREM DtaAlwaysAnswered == Spec => DtaAnswered
<1>1. Init => DtaInv
  BY NamesAssumption DEF Init, DtaInv
<1>2. ASSUME IInv, DtaInv, GetDta
      PROVE  /\ set_dta # None => ResultDta = set_dta
             /\ \/ answer' = ResultDta
                \/ answer' = Bad /\ ResultDta \in LowDta /\ Free = {}
  <2>1. active /\ StandIn \notin LowDta \cup HighDta /\ LowDta \cap HighDta = {} /\ None \notin HighDta
    BY <1>2, NamesAssumption DEF GetDta
  <2>2. dos_dta \in LowDta \cup {StandIn} /\ set_dta \in LowDta \cup HighDta \cup {None}
    BY <1>2 DEF IInv, TypeOK
  <2>3. CASE dos_dta = StandIn
    <3>1. user_dta # None /\ ResultDta = user_dta /\ answer' = user_dta
      BY <1>2, <2>3 DEF DtaInv, GetDta, DtaIsTranslated, ResultDta
    <3> QED
      BY <1>2, <2>1, <2>2, <2>3, <3>1 DEF DtaInv
  <2>4. CASE dos_dta # StandIn
    <3>1. ResultDta = dos_dta /\ (answer' = dos_dta \/ (answer' = Bad /\ Free = {}))
      BY <1>2, <2>4, GetDtaStep DEF ResultDta
    <3> QED
      BY <1>2, <2>1, <2>2, <2>4, <3>1 DEF DtaInv
  <2> QED
    BY <2>3, <2>4
<1>3. IInv /\ DtaInv =>
        [GetDta =>
           /\ set_dta # None => ResultDta = set_dta
           /\ \/ answer' = ResultDta
              \/ answer' = Bad /\ ResultDta \in LowDta /\ Free = {}]_vars
  BY <1>2
<1>4. Spec => []DtaInv
  BY <1>1, DtaOfStep, DataTypeCorrect, PTL DEF Spec
<1> QED
  BY <1>3, <1>4, Invariant, PTL DEF DtaAnswered
=============================================================================
