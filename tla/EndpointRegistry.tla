-------------------------- MODULE EndpointRegistry --------------------------
(***************************************************************************)
(* The endpoints of a context and the file descriptors behind them:        *)
(* opening, probing, scanning, closing and the FM-API switch of            *)
(* src/cxlmi/cxlmi.c, with the mock endpoints of src/cxlmi/mock.c.         *)
(*                                                                         *)
(* Every library call is one action, except the two scans, which open one  *)
(* endpoint per action; the library leaves serialization to the user, so   *)
(* no other call runs meanwhile.  The application opens and closes         *)
(* descriptors of its own at any time.                                     *)
(***************************************************************************)
EXTENDS Integers, FiniteSets

CONSTANTS
  Handles,   \* the addresses of struct cxlmi_endpoint
  Devices,   \* the character devices under /dev/cxl
  Eids,      \* the nid:eid pairs of the MCTP bus
  MaxFd,     \* the highest descriptor of the process
  AppFds,    \* the descriptors the application may hold
  Timeouts,  \* the values given to cxlmi_endpoint_set_timeout
  None       \* the name of a mock endpoint, and an unused address

MCTP_MAX_TIMEOUT == 2000
DefaultTimeout == 5000

Fds == 0 .. MaxFd

ASSUME RegistryAssumption ==
  /\ IsFiniteSet(Handles)
  /\ MaxFd \in Nat
  /\ AppFds \subseteq Fds
  /\ Timeouts \subseteq Nat
  /\ None \notin Devices \cup Eids

VARIABLES
  ep,             \* address -> endpoint on the list of the context, or None
  fds,            \* descriptors open in the process
  app,            \* descriptors the application has opened
  probe_enabled,  \* ctx->probe_enabled
  scan,           \* the scan under way or just returned
  crashed         \* the process followed a broken list pointer

vars == <<ep, fds, app, probe_enabled, scan, crashed>>

-----------------------------------------------------------------------------
(* Endpoints *)

Kinds == {"ioctl", "mctp", "mock"}

Endpoint ==
  [kind : Kinds, name : Devices \cup Eids \cup {None}, fd : Fds \cup {-1},
   sd : Fds \cup {-1}, fmapi_sd : Fds \cup {-1}, has_fmapi : BOOLEAN,
   timeout : Timeouts \cup {MCTP_MAX_TIMEOUT, DefaultTimeout},
   intact : BOOLEAN]

ASSUME NoneAssumption == None \notin Endpoint \cup Kinds

InUse == {h \in Handles : ep[h] # None}

\* The transport_data of an endpoint is NULL when it uses ioctl.
HasTransportData(h) == ep[h].kind # "ioctl"

DeviceOpen_Unchecked(d) == FALSE

DeviceOpen(d) == \E h \in InUse : ep[h].kind = "ioctl" /\ ep[h].name = d

\* The data of a mock is compared too: its magic number is the nid of no Eids.
MctpOpen(e) == \E h \in InUse : ep[h].kind = "mctp" /\ ep[h].name = e

\* open() and socket() give the lowest free descriptor; none may be left.
NextFd(open) == {d \in Fds \ open : \A e \in Fds \ open : d <= e}

-----------------------------------------------------------------------------
(* Opening: what each function does to the list and the descriptors.  An   *)
(* open that fails closes what it opened, and leaves both as they were.    *)

init_endpoint(kind, name) ==
  [kind |-> kind, name |-> name, fd |-> -1, sd |-> -1, fmapi_sd |-> -1,
   has_fmapi |-> FALSE, timeout |-> DefaultTimeout, intact |-> TRUE]

Add(h, e, open) == ep' = [ep EXCEPT ![h] = e] /\ fds' = open

\* endpoint_probe() turns FM-API on for every probed device.
cxlmi_open(h, d) ==
  /\ ep[h] = None /\ ~DeviceOpen(d)
  /\ \E fd \in NextFd(fds) :
       Add(h, [init_endpoint("ioctl", d) EXCEPT !.fd = fd,
                                                !.has_fmapi = probe_enabled],
           fds \cup {fd})

\* The probe may stop early: switched off, Identify failed, an unsupported
\* component.  Else it opens the FM-API socket, which may fail.
cxlmi_open_mctp(h, e) ==
  /\ ep[h] = None /\ ~MctpOpen(e)
  /\ \E sd \in NextFd(fds) :
       LET mctp == [init_endpoint("mctp", e) EXCEPT
                      !.sd = sd, !.fmapi_sd = 0, !.timeout = MCTP_MAX_TIMEOUT]
           open == fds \cup {sd}
       IN \/ Add(h, mctp, open)
          \/ probe_enabled /\ Add(h, [mctp EXCEPT !.fmapi_sd = -1], open)
          \/ /\ probe_enabled
             /\ \E fmapi_sd \in NextFd(open) :
                  Add(h, [mctp EXCEPT !.fmapi_sd = fmapi_sd, !.has_fmapi = TRUE],
                      open \cup {fmapi_sd})

-----------------------------------------------------------------------------
(* Closing *)

mctp_close_CciOnly(e) == {e.sd}

mctp_close(e) == {e.sd} \cup IF e.has_fmapi THEN {e.fmapi_sd} ELSE {}

\* The descriptors cxlmi_close() closes.
Closes(e) ==
  IF e.kind = "mock" THEN {}
  ELSE IF e.kind = "mctp" THEN mctp_close(e)
  ELSE {e.fd} \ {-1}

\* mock_close() walks the list of responses.
CloseAll(hs) ==
  /\ crashed' = \E h \in hs : ~ep[h].intact
  /\ ep' = [h \in Handles |-> IF h \in hs THEN None ELSE ep[h]]
  /\ fds' = fds \ UNION {Closes(ep[h]) : h \in hs}

-----------------------------------------------------------------------------
(* Calls of the application *)

NoScan == [of |-> None, running |-> FALSE, todo |-> {}, failed |-> {},
           nopen |-> 0, before |-> 0, rc |-> 0]

\* The library is free to be called.
Ready == scan = NoScan /\ ~crashed

Open(h, d) ==
  Ready /\ cxlmi_open(h, d) /\ UNCHANGED <<app, probe_enabled, scan, crashed>>

OpenMctp(h, e) ==
  Ready /\ cxlmi_open_mctp(h, e) /\ UNCHANGED <<app, probe_enabled, scan, crashed>>

\* cxlmi_open_mock
OpenMock(h) ==
  /\ Ready /\ ep[h] = None
  /\ Add(h, [init_endpoint("mock", None) EXCEPT !.has_fmapi = TRUE], fds)
  /\ UNCHANGED <<app, probe_enabled, scan, crashed>>

Close(h) ==
  Ready /\ h \in InUse /\ CloseAll({h}) /\ UNCHANGED <<app, probe_enabled, scan>>

\* cxlmi_free_ctx, then cxlmi_new_ctx, which reads the environment.
FreeCtx ==
  Ready /\ CloseAll(InUse) /\ probe_enabled' \in BOOLEAN /\ UNCHANGED <<app, scan>>

SetProbeEnabled ==
  /\ Ready /\ probe_enabled' \in BOOLEAN
  /\ UNCHANGED <<ep, fds, app, scan, crashed>>

mctp_check_timeout_Never(t) == FALSE

mctp_check_timeout(t) == t > MCTP_MAX_TIMEOUT

SetTimeout(h, t) ==
  /\ Ready /\ h \in InUse
  /\ ~(HasTransportData(h) /\ mctp_check_timeout(t))
  /\ ep' = [ep EXCEPT ![h].timeout = t]
  /\ UNCHANGED <<fds, app, probe_enabled, scan, crashed>>

\* A mock's transport_data is used as an MCTP one: a socket is opened and its
\* number written over the list of responses.
EnableFmapi(h) ==
  /\ Ready /\ h \in InUse /\ ~ep[h].has_fmapi
  /\ \/ /\ ~HasTransportData(h)
        /\ Add(h, [ep[h] EXCEPT !.has_fmapi = TRUE], fds)
     \/ /\ HasTransportData(h)
        /\ \E sd \in NextFd(fds) :
             Add(h, [ep[h] EXCEPT !.has_fmapi = TRUE, !.fmapi_sd = sd,
                                  !.intact = @ /\ ep[h].kind # "mock"],
                 fds \cup {sd})
     \/ /\ HasTransportData(h)
        /\ Add(h, [ep[h] EXCEPT !.fmapi_sd = -1,
                                !.intact = @ /\ ep[h].kind # "mock"], fds)
  /\ UNCHANGED <<app, probe_enabled, scan, crashed>>

\* The number closed for a mock is half of a pointer, and no descriptor.
DisableFmapi(h) ==
  /\ Ready /\ h \in InUse /\ ep[h].has_fmapi
  /\ IF HasTransportData(h)
     THEN Add(h, [ep[h] EXCEPT !.has_fmapi = FALSE, !.fmapi_sd = -1,
                               !.intact = @ /\ ep[h].kind # "mock"],
              IF ep[h].kind = "mctp" THEN fds \ {ep[h].fmapi_sd} ELSE fds)
     ELSE Add(h, [ep[h] EXCEPT !.has_fmapi = FALSE], fds)
  /\ UNCHANGED <<app, probe_enabled, scan, crashed>>

-----------------------------------------------------------------------------
(* Scans *)

Count(kind) == Cardinality({h \in InUse : ep[h].kind = kind})

Scans == {"ioctl", "mctp"}

Names(kind) == IF kind = "ioctl" THEN Devices ELSE Eids

ScanStart(kind) ==
  /\ Ready
  /\ scan' = [NoScan EXCEPT !.of = kind, !.running = TRUE, !.todo = Names(kind),
                            !.before = Count(kind)]
  /\ UNCHANGED <<ep, fds, app, probe_enabled, crashed>>

\* opendir() or the D-Bus query fails: nothing could be asked for.  (Without
\* /dev/cxl cxlmi_scan returns 0: that is ScanEnds with no Devices.)
ScanFails(kind) ==
  /\ Ready
  /\ scan' = [NoScan EXCEPT !.of = kind, !.failed = Names(kind), !.rc = -1]
  /\ UNCHANGED <<ep, fds, app, probe_enabled, crashed>>

Scanning(kind, n) == scan.running /\ scan.of = kind /\ n \in scan.todo /\ ~crashed

ScanOpens_Twice(n) == scan' = [scan EXCEPT !.todo = @ \ {n}, !.nopen = @ + 2]

ScanOpens(n) == scan' = [scan EXCEPT !.todo = @ \ {n}, !.nopen = @ + 1]

ScanOpen(h, d) ==
  /\ Scanning("ioctl", d) /\ cxlmi_open(h, d) /\ ScanOpens(d)
  /\ UNCHANGED <<app, probe_enabled, crashed>>

ScanOpenFails_Stops(d) ==
  /\ Scanning("ioctl", d)
  /\ scan' = [scan EXCEPT !.running = FALSE, !.rc = scan.nopen]
  /\ UNCHANGED <<ep, fds, app, probe_enabled, crashed>>

\* A device that is open already, or that does not open, is passed over.
ScanOpenFails(d) ==
  /\ Scanning("ioctl", d)
  /\ scan' = [scan EXCEPT !.todo = @ \ {d},
                          !.failed = IF DeviceOpen(d) THEN @ ELSE @ \cup {d}]
  /\ UNCHANGED <<ep, fds, app, probe_enabled, crashed>>

ScanOpenMctp(h, e) ==
  /\ Scanning("mctp", e) /\ cxlmi_open_mctp(h, e) /\ ScanOpens(e)
  /\ UNCHANGED <<app, probe_enabled, crashed>>

ScanOpenMctpFails_GoesOn(e) ==
  /\ Scanning("mctp", e)
  /\ scan' = [scan EXCEPT !.todo = @ \ {e},
                          !.failed = IF MctpOpen(e) THEN @ ELSE @ \cup {e}]
  /\ UNCHANGED <<ep, fds, app, probe_enabled, crashed>>

\* Other objects on the bus are passed over, but an endpoint that is open
\* already, or that does not open, ends the scan.
ScanOpenMctpFails(e) ==
  /\ Scanning("mctp", e)
  /\ scan' = [scan EXCEPT !.running = FALSE, !.rc = -1,
                          !.failed = IF MctpOpen(e) THEN @ ELSE @ \cup {e}]
  /\ UNCHANGED <<ep, fds, app, probe_enabled, crashed>>

ScanEnds ==
  /\ scan.running /\ scan.todo = {}
  /\ scan' = [scan EXCEPT !.running = FALSE, !.rc = scan.nopen]
  /\ UNCHANGED <<ep, fds, app, probe_enabled, crashed>>

\* The caller has looked at what the scan returned.
ScanHandled ==
  /\ scan.of # None /\ ~scan.running /\ scan' = NoScan
  /\ UNCHANGED <<ep, fds, app, probe_enabled, crashed>>

-----------------------------------------------------------------------------
(* The application's own descriptors *)

AppOpen(d) ==
  /\ ~crashed /\ d \in AppFds \cap NextFd(fds)
  /\ fds' = fds \cup {d} /\ app' = app \cup {d}
  /\ UNCHANGED <<ep, probe_enabled, scan, crashed>>

AppClose(d) ==
  /\ ~crashed /\ d \in app
  /\ fds' = fds \ {d} /\ app' = app \ {d}
  /\ UNCHANGED <<ep, probe_enabled, scan, crashed>>

Init ==
  /\ ep = [h \in Handles |-> None]
  /\ app = AppFds /\ fds = AppFds
  /\ probe_enabled \in BOOLEAN
  /\ scan = NoScan /\ crashed = FALSE

Call(h) ==
  \/ \E d \in Devices : Open(h, d)
  \/ \E e \in Eids : OpenMctp(h, e)
  \/ OpenMock(h) \/ Close(h)
  \/ \E t \in Timeouts : SetTimeout(h, t)
  \/ EnableFmapi(h) \/ DisableFmapi(h)

ScanStep ==
  \/ \E h \in Handles, d \in Devices : ScanOpen(h, d)
  \/ \E d \in Devices : ScanOpenFails(d)
  \/ \E h \in Handles, e \in Eids : ScanOpenMctp(h, e)
  \/ \E e \in Eids : ScanOpenMctpFails(e)
  \/ ScanEnds

Next ==
  \/ \E h \in Handles : Call(h)
  \/ FreeCtx \/ SetProbeEnabled
  \/ \E kind \in Scans : ScanStart(kind) \/ ScanFails(kind)
  \/ ScanStep \/ ScanHandled
  \/ \E d \in Fds : AppOpen(d) \/ AppClose(d)

Spec == Init /\ [][Next]_vars

-----------------------------------------------------------------------------
(* Properties *)

\* The fields hold values of their types, and the timeout of an MCTP endpoint
\* is within what mctp_check_timeout allows.
TypeOK ==
  /\ ep \in [Handles -> Endpoint \cup {None}]
  /\ \A h \in InUse : ep[h].kind = "mctp" => ep[h].timeout <= MCTP_MAX_TIMEOUT
  /\ fds \subseteq Fds /\ app \subseteq AppFds
  /\ probe_enabled \in BOOLEAN /\ crashed \in BOOLEAN
  /\ scan.todo \subseteq Devices \cup Eids
  /\ scan.failed \subseteq Devices \cup Eids
  /\ scan.rc \in Int

\* README.md: "duplicates of each type is forbidden" -- whether the endpoints
\* were opened one by one, by a scan, or by both.
NoDuplicates ==
  \A g, h \in InUse :
    ep[g].kind = ep[h].kind /\ ep[g].name = ep[h].name /\ ep[g].kind # "mock" => g = h

\* FM-API was never switched on a mock endpoint.
MocksIntact == ~crashed /\ \A h \in InUse : ep[h].intact

\* Every open descriptor has exactly one owner, the application or an
\* endpoint that will close it: none leaks, none is closed twice, and none of
\* the application's is closed, however opens, probes, failed sockets, FM-API
\* switches and closes follow each other.
Ownership ==
  MocksIntact =>
    /\ fds = app \cup UNION {Closes(ep[h]) : h \in InUse}
    /\ \A h \in InUse :
         /\ app \cap Closes(ep[h]) = {}
         /\ \A g \in InUse \ {h} : Closes(ep[g]) \cap Closes(ep[h]) = {}
         /\ ep[h].kind = "mctp" /\ ep[h].has_fmapi => ep[h].sd # ep[h].fmapi_sd

Returned(kind) == scan.of = kind /\ ~scan.running

\* A scan that succeeds returns how many endpoints it added to the list.
ScanCount ==
  \A kind \in Scans :
    Returned(kind) /\ scan.rc >= 0 => Count(kind) = scan.before + scan.rc

\* cxlmi_scan leaves no device behind: each is open or does not open.
ScanFindsDevices ==
  Returned("ioctl") /\ scan.rc >= 0 =>
    \A d \in Devices : DeviceOpen(d) \/ d \in scan.failed

\* cxlmi_scan_mctp reports every endpoint it leaves behind: when it succeeds,
\* all of them are open, although it stops at the first that does not open.
ScanFindsEndpoints ==
  Returned("mctp") /\ scan.rc >= 0 => \A e \in Eids : MctpOpen(e)

\* mock.c: "Mock supports everything" -- and a mock endpoint whose FM-API is
\* switched off and on does not bring the process down when it is closed.
MockSurvives == ~crashed
=============================================================================
