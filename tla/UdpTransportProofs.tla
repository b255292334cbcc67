------------------------- MODULE UdpTransportProofs -------------------------
(***************************************************************************)
(* Proofs about UdpTransport, for any number of devices, messages and      *)
(* restarts and any size of the table of devices.                          *)
(***************************************************************************)
EXTENDS UdpTransport, TLAPS

-----------------------------------------------------------------------------
\* TablesOK: the table of a node names no device twice.
TablesOK ==
    /\ devices \in [Nodes -> Seq(Nodes)]
    /\ \A n \in Nodes : \A i, j \in 1 .. Len(devices[n]) :
          devices[n][i] = devices[n][j] => i = j

\* ToldOK: the index that discovery has been told for a device is its place in
\* the table, or, if the table was full, the place behind its end.
ToldOK ==
    /\ told \in [Nodes -> [Nodes -> Nat]]
    /\ \A n, m \in Nodes : told[n][m] # NoIndex =>
          \/ told[n][m] \in 1 .. Len(devices[n]) /\ devices[n][told[n][m]] = m
          \/ told[n][m] = Len(devices[n]) + 1 /\ Len(devices[n]) >= MAX_DEVICE_COUNT

\* DatagramsOK: user data is on its way to the device it is meant for.
DatagramsOK ==
    \A d \in datagrams : d.from \in Nodes /\ d.to \in Nodes /\ d.meant = d.to

\* DeliveredOK: what was delivered in the present life of a gateway came with
\* the place of its sender in the table.
DeliveredOK ==
    /\ epoch \in [Nodes -> Nat]
    /\ \A r \in delivered :
          /\ r.at \in Nodes /\ r.datagram.meant = r.at
          /\ r.epoch \in Nat /\ r.epoch <= epoch[r.at]
          /\ r.epoch = epoch[r.at] =>
                /\ r.index \in 1 .. Len(devices[r.at])
                /\ devices[r.at][r.index] = r.datagram.from

\* IndexInv: the inductive strengthening of DeviceIndexAgrees.
IndexInv == TablesOK /\ ToldOK /\ DatagramsOK /\ DeliveredOK

-----------------------------------------------------------------------------
\* What discoverySocketCallback makes of a table: one that only grows, and in
\* which a device has the index that is reported for it.
LEMMA DevicesWithProperties ==
    ASSUME TablesOK, NEW n \in Nodes, NEW m \in Nodes
    PROVE  LET old == devices[n]
               new == DevicesWith(n, m)
           IN  /\ new \in Seq(Nodes)
               /\ Len(new) >= Len(old)
               /\ \A i \in 1 .. Len(old) : new[i] = old[i]
               /\ \A i, j \in 1 .. Len(new) : new[i] = new[j] => i = j
               /\ Len(old) >= MAX_DEVICE_COUNT => new = old
               /\ ReportedIndex(n, m) \in Nat
               /\ \/ ReportedIndex(n, m) \in 1 .. Len(new) /\ new[ReportedIndex(n, m)] = m
                  \/ ReportedIndex(n, m) = Len(new) + 1 /\ Len(new) >= MAX_DEVICE_COUNT
  <1> DEFINE old == devices[n]
             new == DevicesWith(n, m)
  <1>1. old \in Seq(Nodes) /\ \A i, j \in 1 .. Len(old) : old[i] = old[j] => i = j
    BY DEF TablesOK
  <1>2. \A q \in Seq(Nodes) : m \in ToSet(q) <=> \E i \in 1 .. Len(q) : q[i] = m
    BY DEF ToSet
  <1>3. CASE m \in ToSet(old) \/ Len(old) >= MAX_DEVICE_COUNT
    <2>1. new = old
      BY <1>3 DEF DevicesWith
    <2>2. CASE m \in ToSet(old)
      <3>1. ReportedIndex(n, m) = CHOOSE i \in 1 .. Len(old) : old[i] = m
        BY <2>1, <2>2 DEF ReportedIndex
      <3>2. ReportedIndex(n, m) \in 1 .. Len(old) /\ old[ReportedIndex(n, m)] = m
        BY <1>1, <1>2, <2>2, <3>1
      <3> QED
        BY <1>1, <2>1, <3>2
    <2>3. CASE m \notin ToSet(old)
      <3>1. ReportedIndex(n, m) = Len(old) + 1
        BY <2>1, <2>3 DEF ReportedIndex
      <3> QED
        BY <1>1, <1>3, <2>1, <2>3, <3>1
    <2> QED
      BY <2>2, <2>3
  <1>4. CASE m \notin ToSet(old) /\ ~(Len(old) >= MAX_DEVICE_COUNT)
    <2>1. new = Append(old, m)
      BY <1>4 DEF DevicesWith
    <2>2. /\ new \in Seq(Nodes) /\ Len(new) = Len(old) + 1
          /\ \A i \in 1 .. Len(old) : new[i] = old[i]
          /\ new[Len(new)] = m
      BY <1>1, <2>1
    <2>3. \A i \in 1 .. Len(old) : old[i] # m
      BY <1>1, <1>2, <1>4
    <2>4. \A i, j \in 1 .. Len(new) : new[i] = new[j] => i = j
      BY <1>1, <2>2, <2>3, SMTT(30)
    <2>5. m \in ToSet(new)
      BY <1>2, <2>2
    <2>6. ReportedIndex(n, m) = CHOOSE i \in 1 .. Len(new) : new[i] = m
      BY <2>5 DEF ReportedIndex
    <2>7. ReportedIndex(n, m) \in 1 .. Len(new) /\ new[ReportedIndex(n, m)] = m
      BY <2>2, <2>6
    <2> QED
      BY <1>1, <1>4, <2>2, <2>4, <2>7
  <1> QED
    BY <1>3, <1>4

\* The place that getIndex finds.
LEMMA GetIndexFinds ==
    ASSUME TablesOK, NEW n \in Nodes, NEW m, GetIndex(n, m) # NoIndex
    PROVE  GetIndex(n, m) \in 1 .. Len(devices[n]) /\ devices[n][GetIndex(n, m)] = m
  <1>1. m \in ToSet(devices[n])
    BY DEF GetIndex
  <1>2. \E i \in 1 .. Len(devices[n]) : devices[n][i] = m
    BY <1>1 DEF ToSet, TablesOK
  <1>3. GetIndex(n, m) = CHOOSE i \in 1 .. Len(devices[n]) : devices[n][i] = m
    BY <1>1 DEF GetIndex
  <1> QED
    BY <1>2, <1>3

\* The first state.
LEMMA IndexInit == Init => IndexInv
  BY DEF Init, InitBroadcast, IndexInv, TablesOK, ToldOK, DatagramsOK, DeliveredOK, NoIndex

\* Every step keeps the invariant.
LEMMA IndexNext == IndexInv /\ [Next]_vars => IndexInv'
  <1> SUFFICES ASSUME IndexInv, [Next]_vars PROVE IndexInv'
    OBVIOUS
  <1> USE DEF IndexInv, broadcastVars
  <1>1. ASSUME NEW n \in Nodes, NEW m \in Nodes, Discover(n, m) PROVE IndexInv'
    <2> DEFINE old == devices[n]
               new == DevicesWith(n, m)
               reported == ReportedIndex(n, m)
    <2>1. /\ devices' = [devices EXCEPT ![n] = new]
          /\ told' = IF told[n][m] = NoIndex THEN [told EXCEPT ![n][m] = reported] ELSE told
          /\ UNCHANGED <<epoch, datagrams, delivered>>
      BY <1>1 DEF Discover
    <2>2. /\ new \in Seq(Nodes) /\ Len(new) >= Len(old)
          /\ \A i \in 1 .. Len(old) : new[i] = old[i]
          /\ \A i, j \in 1 .. Len(new) : new[i] = new[j] => i = j
          /\ Len(old) >= MAX_DEVICE_COUNT => new = old
          /\ reported \in Nat
          /\ \/ reported \in 1 .. Len(new) /\ new[reported] = m
             \/ reported = Len(new) + 1 /\ Len(new) >= MAX_DEVICE_COUNT
      BY DevicesWithProperties
    <2> HIDE DEF new, reported
    <2>3. TablesOK'
      BY <2>1, <2>2 DEF TablesOK
    <2>4. old \in Seq(Nodes)
      BY DEF TablesOK
    <2>5. ToldOK'
      <3>1. told' \in [Nodes -> [Nodes -> Nat]]
        BY <2>1, <2>2 DEF ToldOK
      <3>2. ASSUME NEW k \in Nodes, NEW l \in Nodes, told'[k][l] # NoIndex
            PROVE  \/ told'[k][l] \in 1 .. Len(devices'[k]) /\ devices'[k][told'[k][l]] = l
                   \/ told'[k][l] = Len(devices'[k]) + 1 /\ Len(devices'[k]) >= MAX_DEVICE_COUNT
        <4>1. CASE k = n /\ l = m /\ told[n][m] = NoIndex
          BY <4>1, <2>1, <2>2 DEF ToldOK, TablesOK
        <4>2. CASE ~(k = n /\ l = m /\ told[n][m] = NoIndex)
          <5>1. told'[k][l] = told[k][l]
            BY <4>2, <2>1 DEF ToldOK
          <5>2. devices'[k] = IF k = n THEN new ELSE devices[k]
            BY <2>1 DEF TablesOK
          <5>3. \/ told[k][l] \in 1 .. Len(devices[k]) /\ devices[k][told[k][l]] = l
                \/ told[k][l] = Len(devices[k]) + 1 /\ Len(devices[k]) >= MAX_DEVICE_COUNT
            BY <5>1, <3>2 DEF ToldOK
          <5>4. Len(old) \in Nat /\ Len(new) \in Nat
            BY <2>2, <2>4
          <5>5. CASE k # n
            BY <5>1, <5>2, <5>3, <5>5
          <5>6. CASE k = n /\ told[k][l] \in 1 .. Len(old) /\ old[told[k][l]] = l
            BY <5>1, <5>2, <5>4, <5>6, <2>2
          <5>7. CASE k = n /\ told[k][l] = Len(old) + 1 /\ Len(old) >= MAX_DEVICE_COUNT
            BY <5>1, <5>2, <5>7, <2>2
          <5> QED
            BY <5>3, <5>5, <5>6, <5>7
        <4> QED
          BY <4>1, <4>2
      <3> QED
        BY <3>1, <3>2 DEF ToldOK
    <2>6. DeliveredOK'
      <3>1. \A k \in Nodes : Len(devices'[k]) >= Len(devices[k])
                             /\ \A i \in 1 .. Len(devices[k]) : devices'[k][i] = devices[k][i]
        BY <2>1, <2>2, SMTT(30) DEF TablesOK
      <3>2. \A k \in Nodes : Len(devices[k]) \in Nat /\ Len(devices'[k]) \in Nat
        BY <2>3 DEF TablesOK
      <3> QED
        BY <2>1, <3>1, <3>2 DEF DeliveredOK
    <2> QED
      BY <2>1, <2>3, <2>5, <2>6 DEF DatagramsOK
  <1>2. ASSUME NEW n \in Nodes, NEW m \in Nodes, SendUserData(n, m) PROVE IndexInv'
    <2>1. CASE datagrams' = datagrams
      BY <1>2, <2>1 DEF SendUserData, TablesOK, ToldOK, DatagramsOK, DeliveredOK
    <2>2. CASE datagrams' # datagrams
      <3>1. /\ told[n][m] \in 1 .. Len(devices[n])
            /\ datagrams' = datagrams \cup
                  {[from |-> n, to |-> devices[n][told[n][m]], meant |-> m, number |-> sent + 1]}
            /\ told[n][m] # NoIndex
        BY <1>2, <2>2 DEF SendUserData
      <3>2. devices[n][told[n][m]] = m
        BY <3>1 DEF ToldOK, TablesOK
      <3>3. DatagramsOK'
        BY <3>1, <3>2 DEF DatagramsOK
      <3> QED
        BY <1>2, <3>3 DEF SendUserData, TablesOK, ToldOK, DeliveredOK
    <2> QED
      BY <2>1, <2>2
  <1>3. ASSUME NEW d \in datagrams, DataSocketCallback(d.to, d) PROVE IndexInv'
    <2> DEFINE r == [at |-> d.to, epoch |-> epoch[d.to], datagram |-> d,
                     index |-> GetIndex(d.to, d.from)]
    <2>1. /\ GetIndex(d.to, d.from) # NoIndex /\ delivered' = delivered \cup {r}
          /\ UNCHANGED <<devices, told, epoch, datagrams>>
      BY <1>3 DEF DataSocketCallback
    <2>2. d.to \in Nodes /\ d.meant = d.to
      BY DEF DatagramsOK
    <2>3. /\ GetIndex(d.to, d.from) \in 1 .. Len(devices[d.to])
          /\ devices[d.to][GetIndex(d.to, d.from)] = d.from
      BY <2>1, <2>2, GetIndexFinds
    <2>4. /\ r.at \in Nodes /\ r.datagram.meant = r.at
          /\ r.epoch \in Nat /\ r.epoch <= epoch[r.at]
          /\ r.index \in 1 .. Len(devices[r.at])
          /\ devices[r.at][r.index] = r.datagram.from
      BY <2>2, <2>3 DEF DeliveredOK
    <2> HIDE DEF r
    <2>5. DeliveredOK'
      BY <2>1, <2>4 DEF DeliveredOK
    <2> QED
      BY <2>1, <2>5 DEF TablesOK, ToldOK, DatagramsOK
  <1>4. ASSUME NEW n \in Nodes, Restart(n) PROVE IndexInv'
    <2>1. TablesOK' /\ ToldOK' /\ DatagramsOK'
      BY <1>4 DEF Restart, TablesOK, ToldOK, DatagramsOK, NoIndex
    <2>2. /\ epoch' = [epoch EXCEPT ![n] = @ + 1] /\ UNCHANGED delivered
          /\ devices' = [devices EXCEPT ![n] = <<>>]
      BY <1>4 DEF Restart
    <2>3. DeliveredOK'
      BY <2>2 DEF DeliveredOK, TablesOK
    <2> QED
      BY <2>1, <2>3
  <1>5. ASSUME NEW d \in datagrams, LoseDatagram(d) PROVE IndexInv'
    BY <1>5 DEF LoseDatagram, TablesOK, ToldOK, DatagramsOK, DeliveredOK
  <1>6. ASSUME UNCHANGED <<devices, told, epoch, datagrams, delivered>> PROVE IndexInv'
    BY <1>6 DEF TablesOK, ToldOK, DatagramsOK, DeliveredOK
  <1>7. ASSUME NEW n \in Nodes, NEW m \in Nodes,
               SendFails(n, m) \/ DataSocketError(n) \/ BroadcastError(n)
        PROVE  UNCHANGED <<devices, told, epoch, datagrams, delivered>>
    BY <1>7 DEF SendFails, DataSocketError, BroadcastError, DiscoverySocketError
  <1>8. CASE UNCHANGED vars
    BY <1>6, <1>8 DEF vars
  <1> QED
    BY <1>1, <1>2, <1>3, <1>4, <1>5, <1>6, <1>7, <1>8 DEF Next

\* The invariant says more than the property.
LEMMA IndexAgrees == IndexInv => DeviceIndexAgrees
  <1> SUFFICES ASSUME IndexInv, NEW r \in delivered, r.epoch = epoch[r.at],
                      NEW m \in Nodes, told[r.at][m] = r.index
               PROVE  m = r.datagram.from
    BY DEF IndexInv, DeliveredOK, DeviceIndexAgrees
  <1>1. /\ r.at \in Nodes /\ r.index \in 1 .. Len(devices[r.at])
        /\ devices[r.at][r.index] = r.datagram.from
    BY DEF IndexInv, DeliveredOK
  <1>2. Len(devices[r.at]) \in Nat
    BY <1>1 DEF IndexInv, TablesOK
  <1>3. told[r.at][m] # NoIndex /\ told[r.at][m] # Len(devices[r.at]) + 1
    BY <1>1, <1>2 DEF NoIndex
  <1> QED
    BY <1>1, <1>3 DEF IndexInv, ToldOK

\* IndicesAgree: user data gets to the device it was sent to, and comes with the
\* index that discovery knows its sender by, with any number of devices beyond
\* the capacity of the table and any number of restarts.
THEOREM IndicesAgree == Spec => []DeviceIndexAgrees
  BY IndexInit, IndexNext, IndexAgrees, PTL DEF Spec
=============================================================================
