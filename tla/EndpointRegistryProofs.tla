----------------------- MODULE EndpointRegistryProofs -----------------------
(***************************************************************************)
(* What EndpointRegistry promises, for any number of endpoints, devices,   *)
(* endpoint ids and descriptors.                                           *)
(***************************************************************************)
EXTENDS EndpointRegistry, FiniteSetTheorems, TLAPS

-----------------------------------------------------------------------------
(* Types *)

ScanRecord ==
  [of : Scans \cup {None}, running : BOOLEAN, todo : SUBSET (Devices \cup Eids),
   failed : SUBSET (Devices \cup Eids), nopen : Nat, before : Nat, rc : Int]

\* An endpoint's descriptors are real ones.
Shape(e) ==
  /\ e.kind = "ioctl" => e.fd \in Fds
  /\ e.kind = "mctp" => e.sd \in Fds /\ e.timeout <= MCTP_MAX_TIMEOUT
  /\ e.kind = "mctp" /\ e.has_fmapi => e.fmapi_sd \in Fds

TypeInv ==
  /\ ep \in [Handles -> Endpoint \cup {None}]
  /\ \A h \in InUse : Shape(ep[h])
  /\ fds \subseteq Fds /\ app \subseteq AppFds
  /\ probe_enabled \in BOOLEAN /\ crashed \in BOOLEAN
  /\ scan \in ScanRecord

\* open() and socket() return a descriptor that was free.
LEMMA NextFdFree == ASSUME NEW open PROVE \A d \in NextFd(open) : d \in Fds \ open
BY DEF NextFd

\* init_endpoint makes an endpoint.
LEMMA EndpointType ==
  ASSUME NEW kind \in Kinds, NEW name \in Devices \cup Eids \cup {None}
  PROVE  init_endpoint(kind, name) \in Endpoint
BY DEF init_endpoint, Endpoint, Kinds

\* The endpoints of a kind can be counted.
LEMMA CountNat ==
  ASSUME TypeInv, NEW kind
  PROVE  Count(kind) \in Nat
<1>1. {h \in InUse : ep[h].kind = kind} \subseteq Handles
  BY DEF InUse
<1>2. IsFiniteSet({h \in InUse : ep[h].kind = kind})
  BY <1>1, FS_Subset, RegistryAssumption
<1> QED
  BY <1>2, FS_CardinalityType DEF Count

-----------------------------------------------------------------------------
(* Calls that write one endpoint *)

\* The descriptors closed with what is at an address.
Old(h) == IF ep[h] = None THEN {} ELSE Closes(ep[h])

\* The two sockets of an MCTP endpoint are different ones.
Apart(e) == e.kind = "mctp" /\ e.has_fmapi => e.sd # e.fmapi_sd

\* Two endpoints of one type for the same device or endpoint id.
Same(e, f) == e.kind = f.kind /\ e.name = f.name /\ e.kind # "mock"

\* The descriptors change with the endpoint: those it closed go, those it
\* will close come, and were nobody's.
Moved(h, e) ==
  /\ fds' = (fds \ Old(h)) \cup Closes(e)
  /\ Closes(e) \cap (fds \ Old(h)) = {}
  /\ Apart(e)

\* What a call that opens endpoint h, or changes it, does.
Replaced(h, e) ==
  /\ e \in Endpoint /\ Shape(e)
  /\ ep' = [ep EXCEPT ![h] = e]
  /\ fds' \subseteq Fds
  /\ ep[h] = None => \A g \in InUse : ~Same(ep[g], e)
  /\ ep[h] # None => e.kind = ep[h].kind /\ e.name = ep[h].name
  /\ ep[h] # None /\ e.intact => ep[h].intact
  /\ e.intact /\ Old(h) \subseteq fds /\ (ep[h] # None => Apart(ep[h])) => Moved(h, e)

\* cxlmi_open puts one new endpoint on the list, with a descriptor of its own.
LEMMA OpenReplaces ==
  ASSUME TypeInv, NEW h \in Handles, NEW d \in Devices, cxlmi_open(h, d)
  PROVE  \E e : Replaced(h, e) /\ e.kind = "ioctl" /\ e.name = d
<1>1. PICK fd \in NextFd(fds) :
        Add(h, [init_endpoint("ioctl", d) EXCEPT !.fd = fd,
                                                 !.has_fmapi = probe_enabled],
            fds \cup {fd})
  BY Zenon DEF cxlmi_open
<1> DEFINE e == [init_endpoint("ioctl", d) EXCEPT !.fd = fd,
                                                  !.has_fmapi = probe_enabled]
<1>2. fd \in Fds \ fds /\ probe_enabled \in BOOLEAN /\ fds \cup {fd} \subseteq Fds
  BY NextFdFree DEF TypeInv
<1>3. e \in Endpoint /\ e.kind = "ioctl" /\ e.fd = fd /\ e.name = d
  BY Zenon, <1>2 DEF init_endpoint, Endpoint, Kinds
<1>4. ep[h] = None /\ ~DeviceOpen(d) /\ Add(h, e, fds \cup {fd})
  BY <1>1 DEF cxlmi_open
<1> HIDE DEF e
<1>5. Shape(e) /\ Apart(e) /\ Closes(e) = {fd}
  BY <1>2, <1>3 DEF Shape, Apart, Closes, Fds
<1>6. Moved(h, e)
  BY <1>2, <1>4, <1>5 DEF Moved, Old, Add
<1>7. \A g \in InUse : ~Same(ep[g], e)
  BY <1>3, <1>4 DEF DeviceOpen, Same
<1>8. Replaced(h, e)
  BY <1>2, <1>3, <1>4, <1>5, <1>6, <1>7 DEF Replaced, Add
<1> QED BY <1>3, <1>8

\* So does cxlmi_open_mctp, however its probe ends.
LEMMA OpenMctpReplaces ==
  ASSUME TypeInv, NEW h \in Handles, NEW n \in Eids, cxlmi_open_mctp(h, n)
  PROVE  \E e : Replaced(h, e) /\ e.kind = "mctp" /\ e.name = n
<1> DEFINE new(sd) == [init_endpoint("mctp", n) EXCEPT
                         !.sd = sd, !.fmapi_sd = 0, !.timeout = MCTP_MAX_TIMEOUT]
<1>1. PICK sd \in NextFd(fds) :
        \/ Add(h, new(sd), fds \cup {sd})
        \/ Add(h, [new(sd) EXCEPT !.fmapi_sd = -1], fds \cup {sd})
        \/ \E fmapi_sd \in NextFd(fds \cup {sd}) :
             Add(h, [new(sd) EXCEPT !.fmapi_sd = fmapi_sd, !.has_fmapi = TRUE],
                 (fds \cup {sd}) \cup {fmapi_sd})
  BY Zenon DEF cxlmi_open_mctp
<1>2. ep[h] = None /\ ~MctpOpen(n) /\ 0 \in Fds /\ sd \in Fds \ fds /\ fds \subseteq Fds
  <2>1. 0 \in Fds
    BY RegistryAssumption DEF Fds
  <2> QED BY Zenon, <2>1, NextFdFree DEF cxlmi_open_mctp, TypeInv
<1>3. SUFFICES ASSUME NEW e \in Endpoint, e.kind = "mctp", e.name = n, e.sd = sd,
                      e.timeout = MCTP_MAX_TIMEOUT,
                      \/ /\ ~e.has_fmapi /\ Add(h, e, fds \cup {sd})
                      \/ /\ e.has_fmapi /\ e.fmapi_sd \in Fds \ (fds \cup {sd})
                         /\ Add(h, e, (fds \cup {sd}) \cup {e.fmapi_sd})
               PROVE  Replaced(h, e)
  <2>1. CASE Add(h, new(sd), fds \cup {sd})
    <3> DEFINE e == new(sd)
    <3>1. /\ e \in Endpoint /\ e.kind = "mctp" /\ e.name = n /\ e.sd = sd
          /\ e.timeout = MCTP_MAX_TIMEOUT /\ ~e.has_fmapi
      BY Zenon, <1>2 DEF init_endpoint, Endpoint, Kinds
    <3> HIDE DEF e
    <3> QED BY Zenon, <1>3, <2>1, <3>1 DEF e
  <2>2. CASE Add(h, [new(sd) EXCEPT !.fmapi_sd = -1], fds \cup {sd})
    <3> DEFINE e == [new(sd) EXCEPT !.fmapi_sd = -1]
    <3>1. /\ e \in Endpoint /\ e.kind = "mctp" /\ e.name = n /\ e.sd = sd
          /\ e.timeout = MCTP_MAX_TIMEOUT /\ ~e.has_fmapi
      BY Zenon, <1>2 DEF init_endpoint, Endpoint, Kinds
    <3> HIDE DEF e
    <3> QED BY Zenon, <1>3, <2>2, <3>1 DEF e
  <2>3. ASSUME NEW fd \in NextFd(fds \cup {sd}),
               Add(h, [new(sd) EXCEPT !.fmapi_sd = fd, !.has_fmapi = TRUE],
                   (fds \cup {sd}) \cup {fd})
        PROVE  \E e : Replaced(h, e) /\ e.kind = "mctp" /\ e.name = n
    <3> DEFINE e == [new(sd) EXCEPT !.fmapi_sd = fd, !.has_fmapi = TRUE]
    <3>1. fd \in Fds \ (fds \cup {sd})
      BY <2>3, NextFdFree
    <3>2. /\ new(sd) \in Endpoint /\ new(sd).kind = "mctp" /\ new(sd).name = n
          /\ new(sd).sd = sd /\ new(sd).timeout = MCTP_MAX_TIMEOUT
      BY Zenon, <1>2 DEF init_endpoint, Endpoint, Kinds
    <3>3. PICK r \in Endpoint : r = new(sd)
      BY <3>2
    <3> HIDE DEF new
    <3>4. /\ e \in Endpoint /\ e.kind = "mctp" /\ e.name = n /\ e.sd = sd
          /\ e.timeout = MCTP_MAX_TIMEOUT /\ e.has_fmapi /\ e.fmapi_sd = fd
      BY Zenon, <3>1, <3>2, <3>3 DEF Endpoint
    <3> HIDE DEF e
    <3> QED BY Zenon, <1>3, <2>3, <3>1, <3>4 DEF e
  <2> QED BY Zenon, <1>1, <2>1, <2>2, <2>3
<1>4. Shape(e) /\ Apart(e)
  BY <1>2, <1>3 DEF Shape, Apart, MCTP_MAX_TIMEOUT
<1>5. Moved(h, e) /\ fds' \subseteq Fds
  BY <1>2, <1>3, <1>4 DEF Moved, Old, Add, Closes, mctp_close
<1>6. \A g \in InUse : ~Same(ep[g], e)
  BY <1>2, <1>3 DEF MctpOpen, Same
<1> QED BY <1>2, <1>3, <1>4, <1>5, <1>6 DEF Replaced, Add

\* cxlmi_open_mock adds an endpoint that owns no descriptor.
LEMMA OpenMockReplaces ==
  ASSUME TypeInv, NEW h \in Handles, OpenMock(h)
  PROVE  \E e : Replaced(h, e)
<1> DEFINE e == [init_endpoint("mock", None) EXCEPT !.has_fmapi = TRUE]
<1>1. e \in Endpoint /\ e.kind = "mock"
  BY Zenon DEF init_endpoint, Endpoint, Kinds
<1>2. ep[h] = None /\ Add(h, e, fds)
  BY DEF OpenMock
<1> HIDE DEF e
<1>3. Shape(e) /\ Apart(e) /\ Closes(e) = {}
  BY <1>1 DEF Shape, Apart, Closes
<1>4. Moved(h, e)
  BY <1>2, <1>3 DEF Moved, Old, Add
<1>5. \A g \in InUse : ~Same(ep[g], e)
  BY <1>1 DEF Same
<1>6. Replaced(h, e)
  BY <1>1, <1>2, <1>3, <1>4, <1>5 DEF Replaced, Add, TypeInv
<1> QED BY <1>6

\* cxlmi_endpoint_set_timeout leaves the descriptors alone.
LEMMA SetTimeoutReplaces ==
  ASSUME TypeInv, NEW h \in Handles, NEW t \in Timeouts, SetTimeout(h, t)
  PROVE  \E e : Replaced(h, e)
<1> DEFINE e == [ep[h] EXCEPT !.timeout = t]
<1>1. h \in InUse /\ ep[h] \in Endpoint /\ Shape(ep[h]) /\ fds \subseteq Fds
  BY DEF SetTimeout, TypeInv, InUse
<1>2. /\ e \in Endpoint /\ e.timeout = t /\ e.kind = ep[h].kind /\ e.name = ep[h].name
      /\ e.fd = ep[h].fd /\ e.sd = ep[h].sd /\ e.fmapi_sd = ep[h].fmapi_sd
      /\ e.has_fmapi = ep[h].has_fmapi /\ e.intact = ep[h].intact
  BY <1>1 DEF Endpoint
<1>3. /\ ep' = [ep EXCEPT ![h] = e] /\ fds' = fds
      /\ e.kind = "mctp" => ~(t > MCTP_MAX_TIMEOUT)
  BY <1>2 DEF SetTimeout, HasTransportData, mctp_check_timeout
<1> HIDE DEF e
<1>4. Shape(e)
  BY <1>1, <1>2, <1>3, RegistryAssumption DEF Shape, MCTP_MAX_TIMEOUT
<1>5. Closes(e) = Closes(ep[h]) /\ (Apart(ep[h]) => Apart(e))
  BY <1>2 DEF Closes, mctp_close, Apart
<1>6. ep[h] # None
  BY <1>1 DEF InUse
<1>7. Old(h) \subseteq fds /\ Apart(ep[h]) => Moved(h, e)
  BY <1>3, <1>5, <1>6 DEF Moved, Old
<1>8. Replaced(h, e)
  BY <1>1, <1>2, <1>3, <1>4, <1>6, <1>7 DEF Replaced
<1> QED BY <1>8

\* cxlmi_endpoint_enable_fmapi gives an endpoint a new socket or none.
LEMMA EnableReplaces ==
  ASSUME TypeInv, NEW h \in Handles, EnableFmapi(h)
  PROVE  \E e : Replaced(h, e)
<1>1. h \in InUse /\ ep[h] \in Endpoint /\ Shape(ep[h]) /\ fds \subseteq Fds
  BY Zenon DEF EnableFmapi, TypeInv, InUse
<1>2. ep[h] # None /\ ~ep[h].has_fmapi
  BY Zenon DEF EnableFmapi, InUse
<1>3. CASE ~HasTransportData(h) /\ Add(h, [ep[h] EXCEPT !.has_fmapi = TRUE], fds)
  <2> DEFINE e == [ep[h] EXCEPT !.has_fmapi = TRUE]
  <2>1. /\ e \in Endpoint /\ e.kind = "ioctl" /\ e.kind = ep[h].kind
        /\ e.name = ep[h].name /\ e.fd = ep[h].fd /\ e.intact = ep[h].intact
    BY Zenon, <1>1, <1>3 DEF Endpoint, HasTransportData
  <2> HIDE DEF e
  <2>2. Shape(e) /\ Apart(e) /\ Closes(e) = Closes(ep[h])
    BY <1>1, <2>1 DEF Shape, Apart, Closes
  <2>3. Old(h) \subseteq fds => Moved(h, e)
    BY Zenon, <1>2, <1>3, <2>2 DEF Moved, Old, Add, e
  <2>4. Replaced(h, e)
    BY <1>1, <1>2, <1>3, <2>1, <2>2, <2>3 DEF Replaced, Add, e
  <2> QED BY <2>4
<1>4. ASSUME HasTransportData(h), NEW sd \in NextFd(fds),
             Add(h, [ep[h] EXCEPT !.has_fmapi = TRUE, !.fmapi_sd = sd,
                                  !.intact = @ /\ ep[h].kind # "mock"],
                 fds \cup {sd})
      PROVE  \E e : Replaced(h, e)
  <2> DEFINE e == [ep[h] EXCEPT !.has_fmapi = TRUE, !.fmapi_sd = sd,
                                !.intact = @ /\ ep[h].kind # "mock"]
  <2>1. sd \in Fds \ fds
    BY <1>4, NextFdFree
  <2>2. /\ e \in Endpoint /\ e.kind = ep[h].kind /\ e.name = ep[h].name
        /\ e.sd = ep[h].sd /\ e.fmapi_sd = sd /\ e.has_fmapi /\ e.timeout = ep[h].timeout
        /\ e.kind # "ioctl" /\ (e.intact => ep[h].intact /\ e.kind = "mctp")
    <3>1. ep[h].kind \in {"mctp", "mock"}
      BY <1>1, <1>4 DEF Endpoint, Kinds, HasTransportData
    <3>2. PICK i \in BOOLEAN : i = (ep[h].intact /\ ep[h].kind # "mock")
      BY Zenon
    <3>3. PICK r \in Endpoint : r = ep[h]
      BY <1>1
    <3>4. e = [r EXCEPT !.has_fmapi = TRUE, !.fmapi_sd = sd, !.intact = i]
      BY <3>2, <3>3
    <3> HIDE DEF e
    <3>5. e \in Endpoint
      BY Zenon, <2>1, <3>4 DEF Endpoint
    <3>6. /\ e.kind = r.kind /\ e.name = r.name /\ e.sd = r.sd /\ e.timeout = r.timeout
          /\ e.has_fmapi = TRUE /\ e.fmapi_sd = sd /\ e.intact = i
      BY <3>4 DEF Endpoint
    <3> QED BY Zenon, <1>2, <3>1, <3>2, <3>3, <3>5, <3>6
  <2> HIDE DEF e
  <2>3. Shape(e)
    BY <1>1, <2>1, <2>2 DEF Shape
  <2>4. ASSUME e.intact, Old(h) \subseteq fds PROVE Moved(h, e)
    <3>1. Closes(e) = {ep[h].sd, sd} /\ Old(h) = {ep[h].sd}
      BY <1>2, <2>2, <2>4 DEF Closes, mctp_close, Old
    <3>2. Apart(e) /\ fds' = fds \cup {sd}
      BY <1>4, <2>1, <2>2, <2>4, <3>1 DEF Apart, Add
    <3> QED BY <2>1, <2>4, <3>1, <3>2 DEF Moved
  <2>5. Replaced(h, e)
    BY <1>1, <1>2, <1>4, <2>1, <2>2, <2>3, <2>4 DEF Replaced, Add, e
  <2> QED BY <2>5
<1>5. CASE /\ HasTransportData(h)
           /\ Add(h, [ep[h] EXCEPT !.fmapi_sd = -1,
                                   !.intact = @ /\ ep[h].kind # "mock"], fds)
  <2> DEFINE e == [ep[h] EXCEPT !.fmapi_sd = -1, !.intact = @ /\ ep[h].kind # "mock"]
  <2>1. /\ e \in Endpoint /\ e.kind = ep[h].kind /\ e.name = ep[h].name
        /\ e.sd = ep[h].sd /\ ~e.has_fmapi /\ e.timeout = ep[h].timeout
        /\ e.kind # "ioctl" /\ (e.intact => ep[h].intact /\ e.kind = "mctp")
    <3>1. ep[h].kind \in {"mctp", "mock"}
      BY <1>1, <1>5 DEF Endpoint, Kinds, HasTransportData
    <3>2. PICK i \in BOOLEAN : i = (ep[h].intact /\ ep[h].kind # "mock")
      BY Zenon
    <3>3. PICK r \in Endpoint : r = ep[h]
      BY <1>1
    <3>4. e = [r EXCEPT !.fmapi_sd = -1, !.intact = i]
      BY <3>2, <3>3
    <3> HIDE DEF e
    <3>5. e \in Endpoint
      BY Zenon, <3>4 DEF Endpoint
    <3>6. /\ e.kind = r.kind /\ e.name = r.name /\ e.sd = r.sd /\ e.timeout = r.timeout
          /\ e.has_fmapi = r.has_fmapi /\ e.fmapi_sd = -1 /\ e.intact = i
      BY <3>4 DEF Endpoint
    <3> QED BY Zenon, <1>2, <3>1, <3>2, <3>3, <3>5, <3>6
  <2> HIDE DEF e
  <2>2. Shape(e) /\ Apart(e)
    BY <1>1, <2>1 DEF Shape, Apart
  <2>3. ASSUME e.intact, Old(h) \subseteq fds PROVE Moved(h, e)
    <3>1. Closes(e) = {ep[h].sd} /\ Old(h) = {ep[h].sd}
      BY <1>2, <2>1, <2>3 DEF Closes, mctp_close, Old
    <3> QED BY <1>5, <2>2, <2>3, <3>1 DEF Moved, Add
  <2>4. Replaced(h, e)
    BY <1>1, <1>2, <1>5, <2>1, <2>2, <2>3 DEF Replaced, Add, e
  <2> QED BY <2>4
<1> QED BY Zenon, <1>3, <1>4, <1>5 DEF EnableFmapi

\* cxlmi_endpoint_disable_fmapi closes the socket it forgets.
LEMMA DisableReplaces ==
  ASSUME TypeInv, NEW h \in Handles, DisableFmapi(h)
  PROVE  \E e : Replaced(h, e)
<1>1. h \in InUse /\ ep[h] \in Endpoint /\ Shape(ep[h]) /\ fds \subseteq Fds
  BY DEF DisableFmapi, TypeInv, InUse
<1>2. ep[h] # None /\ ep[h].has_fmapi
  BY DEF DisableFmapi, InUse
<1>3. CASE ~HasTransportData(h)
  <2> DEFINE e == [ep[h] EXCEPT !.has_fmapi = FALSE]
  <2>1. /\ e \in Endpoint /\ e.kind = "ioctl" /\ e.kind = ep[h].kind
        /\ e.name = ep[h].name /\ e.fd = ep[h].fd /\ e.intact = ep[h].intact
    BY Zenon, <1>1, <1>3 DEF Endpoint, HasTransportData
  <2>2. Add(h, e, fds)
    BY <1>3 DEF DisableFmapi
  <2> HIDE DEF e
  <2>3. Shape(e) /\ Apart(e) /\ Closes(e) = Closes(ep[h])
    BY <1>1, <2>1 DEF Shape, Apart, Closes
  <2>4. Old(h) \subseteq fds => Moved(h, e)
    BY <1>2, <2>2, <2>3 DEF Moved, Old, Add
  <2>5. Replaced(h, e)
    BY <1>1, <1>2, <2>1, <2>2, <2>3, <2>4 DEF Replaced, Add
  <2> QED BY <2>5
<1>4. CASE HasTransportData(h)
  <2> DEFINE e == [ep[h] EXCEPT !.has_fmapi = FALSE, !.fmapi_sd = -1,
                                !.intact = @ /\ ep[h].kind # "mock"]
             open == IF ep[h].kind = "mctp" THEN fds \ {ep[h].fmapi_sd} ELSE fds
  <2>1. /\ e \in Endpoint /\ e.kind = ep[h].kind /\ e.name = ep[h].name
        /\ e.sd = ep[h].sd /\ ~e.has_fmapi /\ e.timeout = ep[h].timeout
        /\ e.kind # "ioctl" /\ (e.intact => ep[h].intact /\ e.kind = "mctp")
    <3>1. ep[h].kind \in {"mctp", "mock"}
      BY <1>1, <1>4 DEF Endpoint, Kinds, HasTransportData
    <3>2. PICK i \in BOOLEAN : i = (ep[h].intact /\ ep[h].kind # "mock")
      BY Zenon
    <3>3. PICK r \in Endpoint : r = ep[h]
      BY <1>1
    <3>4. e = [r EXCEPT !.has_fmapi = FALSE, !.fmapi_sd = -1, !.intact = i]
      BY <3>2, <3>3
    <3> HIDE DEF e
    <3>5. e \in Endpoint
      BY Zenon, <3>4 DEF Endpoint
    <3>6. /\ e.kind = r.kind /\ e.name = r.name /\ e.sd = r.sd /\ e.timeout = r.timeout
          /\ e.has_fmapi = FALSE /\ e.fmapi_sd = -1 /\ e.intact = i
      BY <3>4 DEF Endpoint
    <3> QED BY Zenon, <1>2, <3>1, <3>2, <3>3, <3>5, <3>6
  <2>2. Add(h, e, open)
    BY <1>4 DEF DisableFmapi
  <2> HIDE DEF e
  <2>3. Shape(e) /\ Apart(e) /\ open \subseteq Fds
    BY <1>1, <2>1 DEF Shape, Apart
  <2>4. ASSUME e.intact, Old(h) \subseteq fds, Apart(ep[h]) PROVE Moved(h, e)
    <3>1. Closes(e) = {ep[h].sd} /\ Old(h) = {ep[h].sd, ep[h].fmapi_sd}
      BY <1>2, <2>1, <2>4 DEF Closes, mctp_close, Old
    <3>2. fds' = fds \ {ep[h].fmapi_sd} /\ ep[h].sd # ep[h].fmapi_sd
      BY <1>2, <2>1, <2>2, <2>4 DEF Apart, Add
    <3> QED BY <2>3, <2>4, <3>1, <3>2 DEF Moved
  <2>5. Replaced(h, e)
    BY <1>1, <1>2, <2>1, <2>2, <2>3, <2>4 DEF Replaced, Add
  <2> QED BY <2>5
<1> QED BY <1>3, <1>4

-----------------------------------------------------------------------------
(* What a replaced endpoint preserves *)

\* Every descriptor has one owner: the application or one address.
Owned(open, own, old) ==
  /\ open = own \cup UNION {old[h] : h \in Handles}
  /\ \A h \in Handles : own \cap old[h] = {}
  /\ \A g, h \in Handles : g # h => old[g] \cap old[h] = {}

Olds == [h \in Handles |-> Old(h)]

\* The inductive form of Ownership.
OwnInv ==
  MocksIntact => Owned(fds, app, Olds) /\ \A h \in InUse : Apart(ep[h])

\* Replacing what one endpoint owns keeps the descriptors partitioned.
LEMMA OwnedReplace ==
  ASSUME NEW open, NEW own, NEW old, Owned(open, own, old),
         NEW old2, NEW h \in Handles, NEW D,
         old2[h] = D, \A g \in Handles \ {h} : old2[g] = old[g],
         D \cap (open \ old[h]) = {}
  PROVE  Owned((open \ old[h]) \cup D, own, old2)
<1>1. own \subseteq open \ old[h] /\ \A g \in Handles \ {h} : old[g] \subseteq open \ old[h]
  BY DEF Owned
<1>2. UNION {old2[g] : g \in Handles} = (UNION {old[g] : g \in Handles \ {h}}) \cup D
  OBVIOUS
<1>3. open \ old[h] = own \cup UNION {old[g] : g \in Handles \ {h}}
  BY <1>1 DEF Owned
<1>4. \A g \in Handles : own \cap old2[g] = {}
  BY <1>1 DEF Owned
<1>5. ASSUME NEW f \in Handles, NEW g \in Handles, f # g PROVE old2[f] \cap old2[g] = {}
  BY <1>1, <1>5 DEF Owned
<1> QED BY <1>2, <1>3, <1>4, <1>5 DEF Owned

\* A replacement leaves the other endpoints in use as they were.
LEMMA ReplacedInUse ==
  ASSUME TypeInv, NEW h \in Handles, NEW e, Replaced(h, e)
  PROVE  /\ InUse' = InUse \cup {h}
         /\ ep' \in [Handles -> Endpoint \cup {None}]
         /\ ep'[h] = e
         /\ \A g \in Handles \ {h} : ep'[g] = ep[g]
BY NoneAssumption DEF TypeInv, Replaced, InUse

\* A replacement by an endpoint keeps the type of the registry.
LEMMA ReplacedType ==
  ASSUME TypeInv, NEW h \in Handles, NEW e, Replaced(h, e)
  PROVE  \A g \in InUse' : Shape(ep'[g])
<1> SUFFICES ASSUME NEW g \in InUse' PROVE Shape(ep'[g])
  OBVIOUS
<1>1. CASE g = h
  BY Zenon, <1>1, ReplacedInUse DEF Replaced
<1>2. CASE g # h
  BY <1>2, ReplacedInUse DEF TypeInv, InUse
<1> QED BY <1>1, <1>2

\* A replacement under a name nobody else has makes no duplicate.
LEMMA ReplacedNoDuplicates ==
  ASSUME TypeInv, NoDuplicates, NEW h \in Handles, NEW e, Replaced(h, e)
  PROVE  NoDuplicates'
<1> SUFFICES ASSUME NEW f \in InUse', NEW g \in InUse', Same(ep'[f], ep'[g]), f # g
             PROVE  FALSE
  BY DEF NoDuplicates, Same
<1>1. \A x, y \in InUse : Same(ep[x], ep[y]) => x = y
  BY DEF NoDuplicates, Same
<1>2. \A x \in InUse \ {h} : ~Same(ep[x], e) /\ ~Same(e, ep[x])
  <2>1. CASE ep[h] = None
    BY <2>1 DEF Replaced, Same
  <2>2. CASE ep[h] # None
    BY <1>1, <2>2 DEF Replaced, Same, InUse
  <2> QED BY <2>1, <2>2
<1> QED BY <1>1, <1>2, ReplacedInUse DEF InUse

\* A replacement that accounts for its descriptors keeps their owners.
LEMMA ReplacedOwned ==
  ASSUME TypeInv, OwnInv, NEW h \in Handles, NEW e, Replaced(h, e),
         app' = app, crashed' = crashed
  PROVE  OwnInv'
<1> SUFFICES ASSUME MocksIntact'
             PROVE  (Owned(fds, app, Olds) /\ \A g \in InUse : Apart(ep[g]))'
  BY DEF OwnInv
<1>1. /\ InUse' = InUse \cup {h} /\ ep'[h] = e
      /\ \A g \in Handles \ {h} : ep'[g] = ep[g]
  BY ReplacedInUse
<1>2. e.intact /\ MocksIntact
  <2>1. e.intact /\ ~crashed /\ \A g \in InUse' : ep'[g].intact
    BY <1>1 DEF MocksIntact
  <2>2. \A g \in InUse : ep[g].intact
    BY <1>1, <2>1 DEF InUse, Replaced
  <2> QED BY <2>1, <2>2 DEF MocksIntact
<1>3. Owned(fds, app, Olds) /\ \A g \in InUse : Apart(ep[g])
  BY <1>2 DEF OwnInv
<1>4. Old(h) \subseteq fds /\ (ep[h] # None => Apart(ep[h]))
  BY <1>3 DEF Owned, Olds, InUse
<1>5. Moved(h, e)
  BY <1>2, <1>4 DEF Replaced
<1>6. \A g \in InUse' : Apart(ep'[g])
  BY <1>1, <1>3, <1>5 DEF Moved, InUse
<1>7. /\ Olds'[h] = Closes(e)
      /\ \A g \in Handles \ {h} : Olds'[g] = Olds[g]
      /\ Olds[h] = Old(h)
  BY <1>1, NoneAssumption DEF Olds, Old, Replaced
<1>8. Owned((fds \ Olds[h]) \cup Closes(e), app, Olds')
  BY <1>3, <1>5, <1>7, OwnedReplace DEF Moved
<1>9. Owned(fds', app', Olds')
  BY <1>5, <1>7, <1>8 DEF Moved
<1> QED BY <1>6, <1>9

-----------------------------------------------------------------------------
(* What closing preserves *)

\* Closing what some endpoints own keeps the descriptors partitioned.
LEMMA OwnedClose ==
  ASSUME NEW open, NEW own, NEW old, Owned(open, own, old), NEW hs \in SUBSET Handles,
         NEW old2, \A h \in Handles : old2[h] = IF h \in hs THEN {} ELSE old[h]
  PROVE  Owned(open \ UNION {old[h] : h \in hs}, own, old2)
<1> DEFINE gone == UNION {old[h] : h \in hs}
<1>1. own \cap gone = {} /\ \A h \in Handles \ hs : old[h] \cap gone = {}
  BY DEF Owned
<1>2. UNION {old2[h] : h \in Handles} = UNION {old[h] : h \in Handles \ hs}
  OBVIOUS
<1>3. open \ gone = own \cup UNION {old[h] : h \in Handles \ hs}
  BY <1>1 DEF Owned
<1>4. \A h \in Handles : own \cap old2[h] = {}
  BY DEF Owned
<1>5. \A g, h \in Handles : g # h => old2[g] \cap old2[h] = {}
  BY DEF Owned
<1> QED BY <1>2, <1>3, <1>4, <1>5 DEF Owned

\* cxlmi_close and cxlmi_free_ctx preserve the invariant.
LEMMA CloseAllPreserves ==
  ASSUME TypeInv, NoDuplicates, OwnInv, ~crashed, NEW hs \in SUBSET InUse, CloseAll(hs),
         app' = app
  PROVE  /\ ep' \in [Handles -> Endpoint \cup {None}]
         /\ \A g \in InUse' : Shape(ep'[g])
         /\ fds' \subseteq Fds /\ crashed' \in BOOLEAN
         /\ NoDuplicates' /\ OwnInv'
<1>1. /\ InUse' = InUse \ hs /\ \A g \in InUse' : ep'[g] = ep[g]
      /\ ep' \in [Handles -> Endpoint \cup {None}]
      /\ \A g \in Handles : ep'[g] = IF g \in hs THEN None ELSE ep[g]
  BY DEF CloseAll, InUse, TypeInv
<1>2. \A g \in InUse' : Shape(ep'[g])
  BY <1>1 DEF TypeInv
<1>3. fds' \subseteq Fds /\ crashed' \in BOOLEAN
  BY DEF CloseAll, TypeInv
<1>4. NoDuplicates'
  BY <1>1 DEF NoDuplicates
<1>5. ASSUME MocksIntact'
      PROVE  (Owned(fds, app, Olds) /\ \A g \in InUse : Apart(ep[g]))'
  <2>1. MocksIntact
    BY <1>1, <1>5 DEF MocksIntact, CloseAll
  <2>2. Owned(fds, app, Olds) /\ \A g \in InUse : Apart(ep[g])
    BY <2>1 DEF OwnInv
  <2>3. \A g \in Handles : Olds'[g] = IF g \in hs THEN {} ELSE Olds[g]
    BY <1>1 DEF Olds, Old
  <2>4. \A g \in hs : Olds[g] = Closes(ep[g]) /\ g \in Handles
    BY DEF Olds, Old, InUse
  <2>5. UNION {Closes(ep[g]) : g \in hs} = UNION {Olds[g] : g \in hs}
    BY <2>4
  <2>6. Owned(fds', app', Olds')
    BY <2>2, <2>3, <2>4, <2>5, OwnedClose DEF CloseAll
  <2> QED BY <1>1, <2>2, <2>6
<1> QED BY <1>1, <1>2, <1>3, <1>4, <1>5 DEF OwnInv

-----------------------------------------------------------------------------
(* Invariance *)

Inv == TypeInv /\ NoDuplicates /\ OwnInv

\* The invariant holds when the context has just been made.
LEMMA InitInv == Init => Inv
<1> SUFFICES ASSUME Init PROVE Inv
  OBVIOUS
<1>1. InUse = {}
  BY DEF Init, InUse
<1>2. TypeInv
  <2>1. NoScan \in ScanRecord
    BY DEF ScanRecord, NoScan
  <2> QED BY Zenon, <1>1, <2>1, RegistryAssumption DEF Init, TypeInv
<1>3. Olds = [h \in Handles |-> {}]
  BY DEF Olds, Old, Init
<1>4. Owned(fds, app, Olds)
  BY <1>3 DEF Owned, Init
<1> QED BY <1>1, <1>2, <1>4 DEF Inv, OwnInv, NoDuplicates

\* A call that writes one endpoint and leaves the scan alone, or moves it.
LEMMA ReplacedInv ==
  ASSUME Inv, NEW h \in Handles, \E e : Replaced(h, e),
         app' = app, crashed' = crashed, probe_enabled' = probe_enabled,
         scan' \in ScanRecord
  PROVE  Inv'
<1>1. PICK e : Replaced(h, e)
  OBVIOUS
<1>2. TypeInv' 
  BY Zenon, <1>1, ReplacedInUse, ReplacedType DEF Inv, TypeInv, Replaced
<1> QED BY <1>1, <1>2, ReplacedNoDuplicates, ReplacedOwned DEF Inv

\* What leaves endpoints and descriptors alone preserves the invariant.
LEMMA UnchangedEndpoints ==
  ASSUME Inv, ep' = ep, crashed' = crashed, fds' = fds, app' = app,
         probe_enabled' \in BOOLEAN, scan' \in ScanRecord
  PROVE  Inv'
<1>1. InUse' = InUse /\ Olds' = Olds
  BY DEF InUse, Olds, Old
<1>2. TypeInv'
  BY <1>1 DEF Inv, TypeInv
<1>3. NoDuplicates'
  BY <1>1 DEF Inv, NoDuplicates
<1>4. MocksIntact' => MocksIntact
  BY <1>1 DEF MocksIntact
<1>5. OwnInv'
  BY <1>1, <1>4 DEF Inv, OwnInv
<1> QED BY <1>2, <1>3, <1>5 DEF Inv

\* The steps of a scan keep the type of its record.
LEMMA ScanTypes ==
  ASSUME TypeInv
  PROVE  /\ scan = NoScan => scan.of = None /\ ~scan.running
         /\ \A kind \in Scans : ScanStart(kind) \/ ScanFails(kind) => scan' \in ScanRecord
         /\ \A n \in Devices \cup Eids : ScanOpens(n) => scan' \in ScanRecord
         /\ \A d \in Devices : ScanOpenFails(d) => scan' \in ScanRecord
         /\ \A e \in Eids : ScanOpenMctpFails(e) => scan' \in ScanRecord
         /\ ScanEnds \/ ScanHandled => scan' \in ScanRecord
<1>1. NoScan \in ScanRecord /\ scan \in ScanRecord
  BY DEF ScanRecord, NoScan, TypeInv
<1>2. /\ scan.nopen \in Nat /\ scan.nopen + 1 \in Nat /\ scan.nopen \in Int /\ -1 \in Int
      /\ scan.todo \subseteq Devices \cup Eids /\ scan.failed \subseteq Devices \cup Eids
  BY <1>1 DEF ScanRecord
<1>3. ASSUME NEW kind \in Scans, ScanStart(kind) \/ ScanFails(kind)
      PROVE  scan' \in ScanRecord
  <2>1. Count(kind) \in Nat
    BY CountNat
  <2>2. Names(kind) \in SUBSET (Devices \cup Eids)
    BY DEF Names
  <2>3. PICK b \in Nat, t \in SUBSET (Devices \cup Eids) : b = Count(kind) /\ t = Names(kind)
    BY <2>1, <2>2
  <2>4. \/ scan' = [NoScan EXCEPT !.of = kind, !.running = TRUE, !.todo = t, !.before = b]
        \/ scan' = [NoScan EXCEPT !.of = kind, !.failed = t, !.rc = -1]
    BY <1>3, <2>3 DEF ScanStart, ScanFails
  <2>5. /\ [NoScan EXCEPT !.of = kind, !.running = TRUE, !.todo = t, !.before = b]
             \in ScanRecord
        /\ [NoScan EXCEPT !.of = kind, !.failed = t, !.rc = -1] \in ScanRecord
    BY Zenon, <1>1, <1>2 DEF ScanRecord
  <2> QED BY <2>4, <2>5
<1>4. ASSUME NEW n \in Devices \cup Eids, ScanOpens(n) PROVE scan' \in ScanRecord
  <2>1. PICK t \in SUBSET (Devices \cup Eids), m \in Nat :
          t = scan.todo \ {n} /\ m = scan.nopen + 1
    BY Zenon, <1>2
  <2>2. scan' = [scan EXCEPT !.todo = t, !.nopen = m]
    BY <1>4, <2>1 DEF ScanOpens
  <2> QED BY Zenon, <1>1, <2>2 DEF ScanRecord
<1>5. ASSUME NEW d \in Devices, ScanOpenFails(d) PROVE scan' \in ScanRecord
  <2>1. PICK t \in SUBSET (Devices \cup Eids), f \in SUBSET (Devices \cup Eids) :
          /\ t = scan.todo \ {d}
          /\ f = IF DeviceOpen(d) THEN scan.failed ELSE scan.failed \cup {d}
    BY Zenon, <1>2
  <2>2. scan' = [scan EXCEPT !.todo = t, !.failed = f]
    BY <1>5, <2>1 DEF ScanOpenFails
  <2> QED BY Zenon, <1>1, <2>2 DEF ScanRecord
<1>6. ASSUME NEW e \in Eids, ScanOpenMctpFails(e) PROVE scan' \in ScanRecord
  <2>1. PICK r \in Int, f \in SUBSET (Devices \cup Eids) :
          /\ r = -1
          /\ f = IF MctpOpen(e) THEN scan.failed ELSE scan.failed \cup {e}
    BY Zenon, <1>2
  <2>2. scan' = [scan EXCEPT !.running = FALSE, !.rc = r, !.failed = f]
    BY <1>6, <2>1 DEF ScanOpenMctpFails
  <2> QED BY Zenon, <1>1, <2>2 DEF ScanRecord
<1>7. ASSUME ScanEnds \/ ScanHandled PROVE scan' \in ScanRecord
  <2>1. PICK r \in Int : r = scan.nopen
    BY <1>2
  <2>2. scan' = [scan EXCEPT !.running = FALSE, !.rc = r] \/ scan' = NoScan
    BY <1>7, <2>1 DEF ScanEnds, ScanHandled
  <2>3. [scan EXCEPT !.running = FALSE, !.rc = r] \in ScanRecord
    BY Zenon, <1>1 DEF ScanRecord
  <2> QED BY <1>1, <2>2, <2>3
<1> QED BY <1>3, <1>4, <1>5, <1>6, <1>7 DEF NoScan

\* Every call on one endpoint preserves the invariant.
LEMMA CallInv ==
  ASSUME Inv, NEW h \in Handles, Call(h)
  PROVE  Inv' /\ scan = NoScan /\ scan' = NoScan
<1>1. TypeInv /\ scan \in ScanRecord
  BY DEF Inv, TypeInv
<1>2. CASE Close(h)
  <2>1. /\ ~crashed /\ {h} \in SUBSET InUse /\ CloseAll({h}) /\ app' = app
        /\ probe_enabled' = probe_enabled /\ scan' = scan
    BY <1>2 DEF Close, Ready
  <2> QED BY <1>2, <2>1, CloseAllPreserves DEF Inv, TypeInv, Close, Ready
<1>3. ASSUME \E e : Replaced(h, e), Ready,
             UNCHANGED <<app, probe_enabled, scan, crashed>>
      PROVE  Inv' /\ scan = NoScan /\ scan' = NoScan
  BY <1>1, <1>3, ReplacedInv DEF Ready
<1>4. ASSUME NEW d \in Devices, Open(h, d) PROVE Inv' /\ scan = NoScan /\ scan' = NoScan
  BY <1>1, <1>3, <1>4, OpenReplaces DEF Open
<1>5. ASSUME NEW e \in Eids, OpenMctp(h, e) PROVE Inv' /\ scan = NoScan /\ scan' = NoScan
  BY <1>1, <1>3, <1>5, OpenMctpReplaces DEF OpenMctp
<1>6. CASE OpenMock(h)
  BY Zenon, <1>1, <1>3, <1>6, OpenMockReplaces DEF OpenMock
<1>7. ASSUME NEW t \in Timeouts, SetTimeout(h, t)
      PROVE  Inv' /\ scan = NoScan /\ scan' = NoScan
  <2>1. \E e : Replaced(h, e)
    BY <1>1, <1>7, SetTimeoutReplaces
  <2> QED BY <1>3, <1>7, <2>1 DEF SetTimeout
<1>8. CASE EnableFmapi(h)
  <2>1. \E e : Replaced(h, e)
    BY <1>1, <1>8, EnableReplaces
  <2> QED BY Zenon, <1>3, <1>8, <2>1 DEF EnableFmapi
<1>9. CASE DisableFmapi(h)
  <2>1. \E e : Replaced(h, e)
    BY <1>1, <1>9, DisableReplaces
  <2> QED BY <1>3, <1>9, <2>1 DEF DisableFmapi
<1> QED BY <1>2, <1>4, <1>5, <1>6, <1>7, <1>8, <1>9 DEF Call

\* The application's own opens and closes preserve the invariant.
LEMMA AppInv ==
  ASSUME Inv, NEW d \in Fds, AppOpen(d) \/ AppClose(d)
  PROVE  Inv'
<1>1. ep' = ep /\ crashed' = crashed /\ probe_enabled' = probe_enabled /\ scan' = scan
  BY DEF AppOpen, AppClose
<1>2. InUse' = InUse /\ Olds' = Olds
  BY <1>1 DEF InUse, Olds, Old
<1>3. TypeInv'
  BY <1>1, <1>2 DEF Inv, TypeInv, AppOpen, AppClose
<1>4. NoDuplicates'
  BY <1>1, <1>2 DEF Inv, NoDuplicates
<1>5. ASSUME MocksIntact'
      PROVE  (Owned(fds, app, Olds) /\ \A h \in InUse : Apart(ep[h]))'
  <2>1. Owned(fds, app, Olds) /\ \A h \in InUse : Apart(ep[h])
    BY <1>1, <1>2, <1>5 DEF Inv, OwnInv, MocksIntact
  <2>2. CASE AppOpen(d)
    <3>1. d \notin fds
      BY <2>2, NextFdFree DEF AppOpen
    <3> QED BY <1>1, <1>2, <2>1, <2>2, <3>1 DEF Owned, AppOpen
  <2>3. CASE AppClose(d)
    BY <1>1, <1>2, <2>1, <2>3 DEF Owned, AppClose
  <2> QED BY <2>2, <2>3
<1> QED BY <1>3, <1>4, <1>5 DEF Inv, OwnInv

\* Every step preserves the invariant.
LEMMA NextInv == Inv /\ [Next]_vars => Inv'
<1> SUFFICES ASSUME Inv, [Next]_vars PROVE Inv'
  OBVIOUS
<1>1. TypeInv /\ scan \in ScanRecord /\ probe_enabled \in BOOLEAN
  BY DEF Inv, TypeInv
<1>2. ASSUME NEW h \in Handles, Call(h) PROVE Inv'
  BY <1>2, CallInv
<1>3. CASE FreeCtx
  <2>1. /\ ~crashed /\ CloseAll(InUse) /\ app' = app
        /\ probe_enabled' \in BOOLEAN /\ scan' = scan
    BY <1>3 DEF FreeCtx, Ready
  <2> QED BY <2>1, CloseAllPreserves DEF Inv, TypeInv
<1>4. CASE SetProbeEnabled
  BY <1>1, <1>4, UnchangedEndpoints DEF SetProbeEnabled
<1>5. ASSUME NEW kind \in Scans, ScanStart(kind) \/ ScanFails(kind) PROVE Inv'
  <2>1. scan' \in ScanRecord
    BY <1>1, <1>5, ScanTypes
  <2> QED BY <1>1, <1>5, <2>1, UnchangedEndpoints DEF ScanStart, ScanFails
<1>6. ASSUME NEW h \in Handles, NEW d \in Devices, ScanOpen(h, d) PROVE Inv'
  <2>1. scan' \in ScanRecord
    BY <1>1, <1>6, ScanTypes DEF ScanOpen
  <2>2. \E e : Replaced(h, e)
    BY <1>1, <1>6, OpenReplaces DEF ScanOpen
  <2> QED BY <1>6, <2>1, <2>2, ReplacedInv DEF ScanOpen
<1>7. ASSUME NEW d \in Devices, ScanOpenFails(d) PROVE Inv'
  <2>1. scan' \in ScanRecord
    BY <1>1, <1>7, ScanTypes
  <2> QED BY <1>1, <1>7, <2>1, UnchangedEndpoints DEF ScanOpenFails
<1>8. ASSUME NEW h \in Handles, NEW e \in Eids, ScanOpenMctp(h, e) PROVE Inv'
  <2>1. scan' \in ScanRecord
    BY <1>1, <1>8, ScanTypes DEF ScanOpenMctp
  <2>2. \E f : Replaced(h, f)
    BY <1>1, <1>8, OpenMctpReplaces DEF ScanOpenMctp
  <2> QED BY <1>8, <2>1, <2>2, ReplacedInv DEF ScanOpenMctp
<1>9. ASSUME NEW e \in Eids, ScanOpenMctpFails(e) PROVE Inv'
  <2>1. scan' \in ScanRecord
    BY <1>1, <1>9, ScanTypes
  <2> QED BY <1>1, <1>9, <2>1, UnchangedEndpoints DEF ScanOpenMctpFails
<1>10. CASE ScanEnds \/ ScanHandled
  <2>1. scan' \in ScanRecord
    BY <1>1, <1>10, ScanTypes
  <2> QED BY <1>1, <1>10, <2>1, UnchangedEndpoints DEF ScanEnds, ScanHandled
<1>11. ASSUME NEW d \in Fds, AppOpen(d) \/ AppClose(d) PROVE Inv'
  BY <1>11, AppInv
<1>12. CASE UNCHANGED vars
  BY <1>1, <1>12, UnchangedEndpoints DEF vars
<1> QED
  BY <1>2, <1>3, <1>4, <1>5, <1>6, <1>7, <1>8, <1>9, <1>10, <1>11, <1>12
  DEF Next, ScanStep

\* The invariant holds in every reachable state of the registry.
LEMMA Invariance == Spec => []Inv
<1>1. QED BY InitInv, NextInv, PTL DEF Spec

-----------------------------------------------------------------------------
(* Theorems *)

\* Whatever is opened, probed, scanned, switched and closed, in any order,
\* the registry keeps its types, and no MCTP endpoint a timeout above the
\* transport's maximum.
THEOREM TypeCorrect == Spec => []TypeOK
<1>1. Inv => TypeOK
  BY DEF Inv, TypeInv, TypeOK, Shape, ScanRecord
<1>2. QED BY <1>1, Invariance, PTL

\* No context ever holds two endpoints of one type for the same device or
\* endpoint id (the checks at the head of cxlmi_open and cxlmi_open_mctp).
THEOREM Unique == Spec => []NoDuplicates
<1>1. Inv => NoDuplicates
  BY DEF Inv
<1>2. QED BY <1>1, Invariance, PTL

\* As long as FM-API is not switched on a mock endpoint, no descriptor leaks,
\* is closed twice, or is closed although it is the application's.
THEOREM DescriptorsOwned == Spec => []Ownership
<1>1. ASSUME Inv, MocksIntact
      PROVE  /\ fds = app \cup UNION {Closes(ep[h]) : h \in InUse}
             /\ \A h \in InUse :
                  /\ app \cap Closes(ep[h]) = {}
                  /\ \A g \in InUse \ {h} : Closes(ep[g]) \cap Closes(ep[h]) = {}
                  /\ ep[h].kind = "mctp" /\ ep[h].has_fmapi => ep[h].sd # ep[h].fmapi_sd
  <2>1. Owned(fds, app, Olds) /\ \A h \in InUse : Apart(ep[h])
    BY <1>1 DEF Inv, OwnInv
  <2>2. \A h \in Handles : Olds[h] = IF h \in InUse THEN Closes(ep[h]) ELSE {}
    BY DEF Olds, Old, InUse
  <2>3. UNION {Olds[h] : h \in Handles} = UNION {Closes(ep[h]) : h \in InUse}
    BY <2>2 DEF InUse
  <2> QED BY <2>1, <2>2, <2>3 DEF Owned, Apart, InUse
<1>2. Inv => Ownership
  BY <1>1 DEF Ownership
<1>3. QED BY <1>2, Invariance, PTL

-----------------------------------------------------------------------------
(* Scans *)

\* What a scan knows while it runs and when it has returned.
ScanInv ==
  /\ scan.running => scan.of \in Scans /\ Count(scan.of) = scan.before + scan.nopen
  /\ scan.of = "ioctl" /\ (scan.running \/ scan.rc >= 0) =>
       \A d \in Devices \ scan.todo : DeviceOpen(d) \/ d \in scan.failed
  /\ scan.of = "mctp" /\ (scan.running \/ scan.rc >= 0) =>
       \A e \in Eids \ scan.todo : MctpOpen(e)
  /\ scan.of \in Scans /\ ~scan.running /\ scan.rc >= 0 => scan.todo = {}
  /\ ScanCount

\* Nothing is claimed of a scan that does not run.
LEMMA ScanNone == ASSUME scan = NoScan PROVE ScanInv
BY NoneAssumption DEF ScanInv, NoScan, ScanCount, Returned, Scans, Kinds

\* Counts, open devices and open endpoints depend on the list only.
LEMMA EpUnchanged ==
  ASSUME ep' = ep
  PROVE  /\ \A kind : Count(kind)' = Count(kind)
         /\ \A d : DeviceOpen(d)' = DeviceOpen(d)
         /\ \A e : MctpOpen(e)' = MctpOpen(e)
BY DEF Count, DeviceOpen, MctpOpen, InUse

\* Opening an endpoint at an unused address makes one more of its kind.
LEMMA OneMore ==
  ASSUME TypeInv, NEW h \in Handles, NEW e, Replaced(h, e), ep[h] = None
  PROVE  /\ Count(e.kind)' = Count(e.kind) + 1
         /\ \A d : DeviceOpen(d) => DeviceOpen(d)'
         /\ e.kind = "ioctl" => DeviceOpen(e.name)'
         /\ \A n : MctpOpen(n) => MctpOpen(n)'
         /\ e.kind = "mctp" => MctpOpen(e.name)'
<1>1. /\ InUse' = InUse \cup {h} /\ ep'[h] = e /\ h \notin InUse
      /\ \A g \in InUse : ep'[g] = ep[g]
  BY ReplacedInUse DEF InUse
<1> DEFINE S == {g \in InUse : ep[g].kind = e.kind}
<1>2. {g \in InUse : ep[g].kind = e.kind}' = S \cup {h} /\ h \notin S
  BY <1>1
<1>3. IsFiniteSet(S)
  BY FS_Subset, RegistryAssumption DEF InUse
<1>4. Cardinality(S \cup {h}) = Cardinality(S) + 1
  BY Zenon, <1>2, <1>3, FS_AddElement
<1>5. Count(e.kind)' = Count(e.kind) + 1
  BY Zenon, <1>2, <1>4 DEF Count
<1> QED BY <1>1, <1>5 DEF DeviceOpen, MctpOpen

\* Every step preserves what is claimed of a scan.
LEMMA ScanNext == Inv /\ ScanInv /\ [Next]_vars => ScanInv'
<1> SUFFICES ASSUME Inv, ScanInv, [Next]_vars PROVE ScanInv'
  OBVIOUS
<1>1. TypeInv /\ scan \in ScanRecord
  BY DEF Inv, TypeInv
<1>2. /\ scan.of \in Scans \cup {None} /\ scan.running \in BOOLEAN
      /\ scan.nopen \in Nat /\ scan.before \in Nat /\ scan.rc \in Int
  BY <1>1 DEF ScanRecord
<1>3. ASSUME NEW h \in Handles, Call(h) PROVE ScanInv'
  <2>1. scan' = NoScan
    BY <1>3, CallInv
  <2> QED BY <2>1, NoneAssumption
       DEF ScanInv, NoScan, ScanCount, Returned, Scans, Kinds
<1>4. CASE FreeCtx \/ ScanHandled
  <2>1. scan' = NoScan
    BY <1>4 DEF FreeCtx, Ready, ScanHandled
  <2> QED BY <2>1, NoneAssumption
       DEF ScanInv, NoScan, ScanCount, Returned, Scans, Kinds
<1>5. ASSUME ep' = ep, scan' = scan PROVE ScanInv'
  BY <1>5, EpUnchanged DEF ScanInv, ScanCount, Returned
<1>6. ASSUME NEW kind \in Scans, ScanFails(kind) PROVE ScanInv'
  <2>1. ~scan'.running /\ scan'.rc = -1
    BY <1>6 DEF ScanFails, NoScan
  <2> QED BY <2>1 DEF ScanInv, ScanCount, Returned
<1>7. ASSUME NEW kind \in Scans, ScanStart(kind) PROVE ScanInv'
  <2>1. /\ scan'.running /\ scan'.of = kind /\ scan'.nopen = 0
        /\ scan'.before = Count(kind) /\ scan'.todo = Names(kind) /\ ep' = ep
    BY <1>7 DEF ScanStart, NoScan
  <2>2. Count(kind)' = scan'.before + scan'.nopen
    BY <1>1, <2>1, CountNat, EpUnchanged
  <2> QED BY <2>1, <2>2 DEF ScanInv, ScanCount, Returned, Names
<1>8. ASSUME NEW h \in Handles, NEW kind \in Scans, NEW n \in Devices \cup Eids,
             Scanning(kind, n), ScanOpens(n), ep[h] = None,
             NEW e, Replaced(h, e), e.kind = kind, e.name = n
      PROVE  ScanInv'
  <2>1. /\ scan.running /\ scan.of = kind
        /\ scan'.running /\ scan'.of = kind /\ scan'.nopen = scan.nopen + 1
        /\ scan'.before = scan.before /\ scan'.todo = scan.todo \ {n}
        /\ scan'.failed = scan.failed
    BY <1>1, <1>8 DEF Scanning, ScanOpens, ScanRecord
  <2>2. /\ Count(kind)' = Count(kind) + 1
        /\ \A d : DeviceOpen(d) => DeviceOpen(d)'
        /\ kind = "ioctl" => DeviceOpen(n)'
        /\ \A k : MctpOpen(k) => MctpOpen(k)'
        /\ kind = "mctp" => MctpOpen(n)'
    BY <1>1, <1>8, OneMore
  <2>3. Count(kind) = scan.before + scan.nopen /\ Count(kind) \in Nat
    BY <1>1, <2>1, CountNat DEF ScanInv
  <2>4. Count(kind)' = scan'.before + scan'.nopen
    BY <1>2, <2>1, <2>2, <2>3
  <2>5. scan.of = "ioctl" => \A d \in Devices \ scan.todo : DeviceOpen(d) \/ d \in scan.failed
    BY <2>1 DEF ScanInv
  <2>6. kind = "ioctl" =>
          \A d \in Devices \ scan'.todo : DeviceOpen(d)' \/ d \in scan'.failed
    BY <2>1, <2>2, <2>5
  <2>7. scan.of = "mctp" => \A k \in Eids \ scan.todo : MctpOpen(k)
    BY <2>1 DEF ScanInv
  <2>8. kind = "mctp" => \A k \in Eids \ scan'.todo : MctpOpen(k)'
    BY <2>1, <2>2, <2>7
  <2> QED BY <2>1, <2>4, <2>6, <2>8 DEF ScanInv, ScanCount, Returned
<1>9. ASSUME NEW h \in Handles, NEW d \in Devices, ScanOpen(h, d) PROVE ScanInv'
  <2>1. PICK e : Replaced(h, e) /\ e.kind = "ioctl" /\ e.name = d
    BY <1>1, <1>9, OpenReplaces DEF ScanOpen
  <2> QED BY <1>8, <1>9, <2>1 DEF ScanOpen, cxlmi_open, Scans
<1>10. ASSUME NEW h \in Handles, NEW n \in Eids, ScanOpenMctp(h, n) PROVE ScanInv'
  <2>1. PICK e : Replaced(h, e) /\ e.kind = "mctp" /\ e.name = n
    BY <1>1, <1>10, OpenMctpReplaces DEF ScanOpenMctp
  <2> QED BY Zenon, <1>8, <1>10, <2>1 DEF ScanOpenMctp, cxlmi_open_mctp, Scans
<1>11. ASSUME NEW d \in Devices, ScanOpenFails(d) PROVE ScanInv'
  <2>1. /\ scan.running /\ scan'.running /\ scan'.of = scan.of /\ scan'.nopen = scan.nopen
        /\ scan.of = "ioctl"
        /\ scan'.before = scan.before /\ scan'.todo = scan.todo \ {d} /\ ep' = ep
        /\ scan.failed \subseteq scan'.failed /\ (DeviceOpen(d) \/ d \in scan'.failed)
    BY <1>1, <1>11 DEF ScanOpenFails, Scanning, ScanRecord
  <2> QED BY <2>1, EpUnchanged DEF ScanInv, ScanCount, Returned
<1>12. ASSUME NEW n \in Eids, ScanOpenMctpFails(n) PROVE ScanInv'
  <2>1. ~scan'.running /\ scan'.rc = -1
    BY <1>1, <1>12 DEF ScanOpenMctpFails, ScanRecord
  <2> QED BY <2>1 DEF ScanInv, ScanCount, Returned
<1>13. CASE ScanEnds
  <2>1. /\ scan.running /\ scan.todo = {} /\ ~scan'.running /\ scan'.of = scan.of
        /\ scan'.rc = scan.nopen /\ scan'.before = scan.before /\ scan'.todo = scan.todo
        /\ scan'.failed = scan.failed /\ ep' = ep
    BY <1>1, <1>13 DEF ScanEnds, ScanRecord
  <2>2. ScanCount'
    BY <2>1, EpUnchanged DEF ScanInv, ScanCount, Returned
  <2> QED BY <2>1, <2>2, EpUnchanged DEF ScanInv
<1>14. CASE SetProbeEnabled \/ UNCHANGED vars \/ \E d \in Fds : AppOpen(d) \/ AppClose(d)
  BY <1>5, <1>14 DEF SetProbeEnabled, vars, AppOpen, AppClose
<1> QED
  BY <1>3, <1>4, <1>6, <1>7, <1>9, <1>10, <1>11, <1>12, <1>13, <1>14
  DEF Next, ScanStep

\* It holds in every reachable state.
LEMMA ScanInvariance == Spec => []ScanInv
<1>1. Init => ScanInv
  BY ScanNone DEF Init
<1>2. QED BY <1>1, Invariance, ScanNext, PTL DEF Spec

\* The value of a successful cxlmi_scan or cxlmi_scan_mctp is the number of
\* endpoints it added, whatever failed on the way.
THEOREM ScanCounts == Spec => []ScanCount
<1>1. ScanInv => ScanCount
  BY DEF ScanInv
<1>2. QED BY <1>1, ScanInvariance, PTL

\* A cxlmi_scan that succeeds has passed no device over: each is open, or
\* did not open.
THEOREM DevicesFound == Spec => []ScanFindsDevices
<1>1. ScanInv => ScanFindsDevices
  BY DEF ScanInv, ScanFindsDevices, Returned, Scans
<1>2. QED BY <1>1, ScanInvariance, PTL

\* A cxlmi_scan_mctp that succeeds has opened every endpoint of the bus: the
\* one it stops at makes it fail.
THEOREM EndpointsFound == Spec => []ScanFindsEndpoints
<1>1. ScanInv => ScanFindsEndpoints
  BY DEF ScanInv, ScanFindsEndpoints, Returned, Scans
<1>2. QED BY <1>1, ScanInvariance, PTL
=============================================================================
