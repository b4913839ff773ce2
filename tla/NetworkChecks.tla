----------------------------- MODULE NetworkChecks -----------------------------
(***************************************************************************)
(* network_and_security/network_and_security.c: a list of checks, each of  *)
(* which runs external commands and reads what they print.  The program    *)
(* may be killed and run again; /etc/shadow and the test file of the       *)
(* upload outlive it.  The checks that only print what a command says      *)
(* are left out.                                                           *)
(***************************************************************************)
EXTENDS Standalone

CONSTANTS
  Transfers,    \* the 10 downloads of each kind and the 10 uploads
  Times,        \* what curl may report as time_total
  Ports,        \* ports that somebody may listen on
  MaxSockets,   \* bound on the sockets in a listing
  MaxCiphers,   \* bound on the ciphers in the list
  MaxNetRuns    \* bound on the runs

ASSUME TransfersAssumption == Transfers \in Nat \ {0} /\ Times \subseteq Nat
NumPorts == 65536    \* the size of seen_ports

ASSUME PortsAssumption == Ports \subseteq 1..(NumPorts - 1)
ASSUME ListsAssumption ==
  MaxSockets \in Nat /\ MaxCiphers \in Nat /\ MaxNetRuns \in Nat \ {0}

Downloads == {"HTTP", "HTTPS"}
Hashes == {"SHA256", "SHA384", "POLY1305"}

VARIABLES
  host,          \* what uname names on this machine
  root,          \* whether the program runs as root
  world_write,   \* whether every user may write /etc/shadow
  shadow,        \* what became of /etc/shadow
  os_name,       \* what get_os_name returned to main
  total,         \* total_http_time, total_https_time, total_time
  seen,          \* the times behind each total
  datafile,      \* testfile.dat: "absent", "part" or "whole"
  report,        \* what the last check printed
  undisturbed,   \* nothing has failed in this run
  netruns

env == <<host, root, world_write>>
transfers == <<total, seen>>
netVars == <<env, shadow, os_name, transfers, datafile, report, undisturbed,
             netruns>>

Kinds == Downloads \union {"upload"}
Zero == [k \in Kinds |-> 0]
Nothing == [test |-> "none"]

NetInit ==
  /\ program = "network_and_security"
  /\ main = "get_os_name"
  /\ i = 0
  /\ faults = 0
  /\ host \in {"Ubuntu", "QNX", "other"}
  /\ root \in BOOLEAN
  /\ world_write \in BOOLEAN
  /\ shadow = "intact"
  /\ os_name = "UNKNOWN"
  /\ total = Zero
  /\ seen = [k \in Kinds |-> <<>>]
  /\ datafile \in {"absent", "whole"}
  /\ report = Nothing
  /\ undisturbed = TRUE
  /\ netruns = 1

Works == UNCHANGED <<faults, undisturbed>>
Fails == Fault /\ undisturbed' = FALSE

------------------------------------------------------------------------------
(* Which checks are made.                                                  *)

\* popen or fgets fails: "UNKNOWN".
OsName(os) == \/ os = host /\ Works
              \/ os = "UNKNOWN" /\ Fails

GetOsName ==
  /\ GoTo("get_os_name", "auth_log")
  /\ \E os \in {host, "UNKNOWN"} : OsName(os) /\ os_name' = os
  /\ UNCHANGED <<program, i, env, shadow, transfers, datafile, report, netruns>>

Checked(r) ==
  /\ report' = r
  /\ UNCHANGED <<program, i, env, os_name, transfers, datafile, netruns>>

\* PAM is there if one of its two configurations is, or find prints a library.
\* If the log is readable and cannot be shown, nothing is said of PAM.
PamFound(installed, findWorks) ==
  \/ installed \intersect {"pam.d", "pam.conf"} # {}
  \/ findWorks /\ "libpam" \in installed

CheckAuthLog ==
  /\ GoTo("auth_log",
          IF os_name \in {"Ubuntu", "QNX"} THEN "attempts" ELSE "ciphers")
  /\ \/ \E installed \in SUBSET {"pam.d", "pam.conf", "libpam"} :
          \E findWorks \in BOOLEAN :
            /\ IF findWorks THEN Works ELSE Fails
            /\ Checked([test |-> "auth_log", installed |-> installed,
                        pam |-> PamFound(installed, findWorks)])
     \/ Checked(Nothing) /\ Fails
  /\ UNCHANGED shadow

\* Each time sudo or login refuses, as it should, or does not.
FailedAttempts ==
  /\ GoTo("attempts", "shadow")
  /\ LET attempts == IF os_name = "Ubuntu" THEN 10 ELSE 5
     IN  \E failed \in 0..attempts :
           Checked([test |-> "attempts", failed |-> failed, of |-> attempts])
  /\ UNCHANGED shadow /\ Works

\* What trying to write and to remove /etc/shadow leaves of it.
Tried(asRoot) ==
  IF asRoot THEN "gone" ELSE IF world_write THEN "appended" ELSE shadow

\* Variant: root is not kept from it.
ShadowAccessUnguarded ==
  /\ GoTo("shadow", "tcp")
  /\ shadow' = Tried(root /\ os_name = "Ubuntu")
  /\ Checked([test |-> "shadow"]) /\ Works

\* As the current user on Ubuntu, unless it is root; as user1 on QNX, if su
\* lets it.
ShadowAccess ==
  /\ GoTo("shadow", "tcp")
  /\ \/ shadow' = (IF root /\ os_name = "Ubuntu" THEN shadow ELSE Tried(FALSE))
        /\ Works
     \/ os_name = "QNX" /\ UNCHANGED shadow /\ Fails
  /\ Checked([test |-> "shadow"])

------------------------------------------------------------------------------
(* Listening ports.  A line of a listing is a sequence of tokens; of each   *)
(* only the number after the last separator matters, ':' for ss and '.' for *)
(* netstat, which atoi makes 0 of "*".                                     *)

Word == [separated |-> FALSE, port |-> 0]
Address(port) == [separated |-> TRUE, port |-> port]
Words(n) == [k \in 1..n |-> Word]

Header == Words(4) \o <<Address(0), Word, Address(0)>>

\* What ss and netstat print of a socket.
SocketLine(os, test, port) ==
  Words(IF os = "Ubuntu" /\ test = "tcp" THEN 4 ELSE 3)
    \o <<Address(port), Address(0)>>

\* The port a line is taken to name: in the first token with a colon, unless
\* the line is the header, or in the fourth token.
LocalPort(os, line) ==
  LET fields == {k \in DOMAIN line : line[k].separated}
      local == IF os = "QNX" THEN fields \intersect {4}
               ELSE IF line = Header THEN {} ELSE fields
  IN  IF local = {} THEN 0 ELSE line[Min(local)].port

\* Variant: a port is printed each time it is seen.
AddPortAgain(seen_ports, port) ==
  IF port > 0 /\ port < NumPorts THEN Append(seen_ports, port) ELSE seen_ports

AddPort(seen_ports, port) ==
  IF port > 0 /\ port < NumPorts /\ ~Contains(seen_ports, port)
  THEN Append(seen_ports, port) ELSE seen_ports

\* Where main reads the lines of a listing, and what it does after the test.
Lines(test) == IF test = "tcp" THEN "tcp_lines" ELSE "udp_lines"
AfterPorts(test) == IF test = "tcp" THEN "udp" ELSE "ciphers"

\* popen and the first fgets, or popen fails.  Only ss -uln has its header line
\* left.
OpenListing(test) ==
  \/ /\ GoTo(test, Lines(test))
     /\ Checked([test |-> test, sockets |-> <<>>,
                 ports |-> IF os_name = "Ubuntu" /\ test = "udp"
                           THEN AddPort(<<>>, LocalPort(os_name, Header))
                           ELSE <<>>])
     /\ Works
  \/ GoTo(test, AfterPorts(test)) /\ Checked(Nothing) /\ Fails

\* A line of the listing: its port is printed, unless it was printed before.
PortLine(test) ==
  /\ GoTo(Lines(test), Lines(test))
  /\ Len(report.sockets) < MaxSockets
  /\ \E port \in Ports :
       LET named == LocalPort(os_name, SocketLine(os_name, test, port))
       IN  Checked([test |-> test, sockets |-> Append(report.sockets, port),
                    ports |-> AddPort(report.ports, named)])
  /\ Works

EndListing(test) == GoTo(Lines(test), AfterPorts(test)) /\ Checked(report) /\ Works

CheckPorts(test) ==
  /\ OpenListing(test) \/ PortLine(test) \/ EndListing(test)
  /\ UNCHANGED shadow

------------------------------------------------------------------------------
(* Ciphers.                                                                *)

\* How many lines name each of the hashes.
CountCiphers(lines) ==
  [h \in Hashes |-> Len(SelectSeq(lines, LAMBDA line : h \in line))]

CheckCiphers ==
  /\ GoTo("ciphers", "HTTP")
  /\ \/ \E lines \in BoundedSeq(SUBSET Hashes, MaxCiphers) :
          /\ Checked([test |-> "ciphers", total |-> Len(lines),
                      counts |-> CountCiphers(lines)])
          /\ Works
     \/ Checked(Nothing) /\ Fails
  /\ UNCHANGED shadow

------------------------------------------------------------------------------
(* Throughput.                                                             *)

OnlyTransfers == UNCHANGED <<program, env, shadow, os_name, netruns>>

\* Variant: every time is added to the first total.
TransferToFirst(kind) ==
  \/ /\ \E time \in Times :
          /\ total' = [total EXCEPT
                         ![IF kind \in Downloads THEN "HTTP" ELSE kind] =
                           @ + time]
          /\ seen' = [seen EXCEPT ![kind] = Append(@, time)]
     /\ Works
  \/ Fails /\ UNCHANGED transfers

\* One curl: it prints its time, or popen or fgets fails and the round is
\* skipped.
Transfer(kind) ==
  \/ /\ \E time \in Times :
          /\ total' = [total EXCEPT ![kind] = @ + time]
          /\ seen' = [seen EXCEPT ![kind] = Append(@, time)]
     /\ Works
  \/ Fails /\ UNCHANGED transfers

Download(kind) ==
  /\ main = kind
  /\ Transfer(kind)
  /\ EndRound(Transfers, IF kind = "HTTP" THEN "HTTPS" ELSE "averages")
  /\ report' = Nothing
  /\ UNCHANGED datafile /\ OnlyTransfers

\* An average is printed as a total divided by a number.  The totals are local
\* to the test.
ReportAverages(test, kinds, divisor) ==
  /\ report' = [test |-> test, divisor |-> divisor,
                totals |-> [k \in kinds |-> total[k]],
                times |-> [k \in kinds |-> seen[k]]]
  /\ total' = Zero
  /\ seen' = [k \in Kinds |-> <<>>]

DownloadAverages ==
  /\ GoTo("averages", "prepare")
  /\ ReportAverages("download", Downloads, Transfers)
  /\ UNCHANGED <<i, datafile>> /\ Works /\ OnlyTransfers

\* The test file is created unless there is one, whatever it contains.  dd may
\* fail half-way, and realpath may fail: the test returns.
PrepareUpload ==
  /\ main = "prepare"
  /\ \/ /\ datafile' = IF datafile = "absent" THEN "whole" ELSE datafile
        /\ \/ main' = "upload" /\ Works
           \/ main' = "done" /\ Fails
     \/ /\ datafile = "absent"
        /\ datafile' \in {"absent", "part"}
        /\ main' = "done" /\ Fails
  /\ report' = Nothing
  /\ UNCHANGED <<i, transfers>> /\ OnlyTransfers

Upload ==
  /\ main = "upload"
  /\ Transfer("upload")
  /\ EndRound(Transfers, "clean_up")
  /\ UNCHANGED <<datafile, report>> /\ OnlyTransfers

\* Variant: the file is removed on Ubuntu only.
CleanUpOnUbuntu ==
  /\ GoTo("clean_up", "done")
  /\ \/ datafile' = (IF host = "Ubuntu" THEN "absent" ELSE datafile) /\ Works
     \/ UNCHANGED datafile /\ Fails
  /\ ReportAverages("upload", {"upload"}, 2 * Transfers)
  /\ UNCHANGED i /\ OnlyTransfers

\* remove, or find -exec rm.  Neither is made if get_os_name fails, and their
\* results are ignored.  The sum of ten times is divided by 20.
CleanUp ==
  /\ GoTo("clean_up", "done")
  /\ \/ datafile' = (IF host \in {"Ubuntu", "QNX"} THEN "absent" ELSE datafile)
        /\ Works
     \/ UNCHANGED datafile /\ Fails
  /\ ReportAverages("upload", {"upload"}, 2 * Transfers)
  /\ UNCHANGED i /\ OnlyTransfers

------------------------------------------------------------------------------
NetSteps ==
  \/ GetOsName \/ CheckAuthLog \/ FailedAttempts \/ ShadowAccess
  \/ \E test \in {"tcp", "udp"} : CheckPorts(test)
  \/ CheckCiphers
  \/ \E kind \in Downloads : Download(kind)
  \/ DownloadAverages \/ PrepareUpload \/ Upload \/ CleanUp

NetKill ==
  /\ main \notin Ended
  /\ main' = "killed"
  /\ UNCHANGED <<program, i, faults, netVars>>

NetRerun ==
  /\ main \in Ended
  /\ netruns < MaxNetRuns
  /\ netruns' = netruns + 1
  /\ main' = "get_os_name"
  /\ i' = 0
  /\ os_name' = "UNKNOWN"
  /\ total' = Zero
  /\ seen' = [k \in Kinds |-> <<>>]
  /\ report' = Nothing
  /\ undisturbed' = TRUE
  /\ UNCHANGED <<program, faults, env, shadow, datafile>>

NetNext == NetSteps \/ NetKill \/ NetRerun

NetSpec == NetInit /\ [][NetNext]_<<shared, netVars>>

------------------------------------------------------------------------------
(* Properties.                                                             *)

\* Every variable keeps its type.
NetTypeOK ==
  /\ main \in {"get_os_name", "auth_log", "attempts", "shadow", "tcp", "udp",
               "tcp_lines", "udp_lines", "ciphers", "HTTP", "HTTPS", "averages",
               "prepare", "upload", "clean_up"} \union Ended
  /\ i \in 0..(Transfers - 1)
  /\ shadow \in {"intact", "appended", "gone"}
  /\ os_name \in {host, "UNKNOWN"}
  /\ total \in [Kinds -> Nat]
  /\ seen \in [Kinds -> Seq(Times)]
  /\ datafile \in {"absent", "part", "whole"}
  /\ undisturbed \in BOOLEAN
  /\ netruns \in 1..MaxNetRuns

\* The tests "prevent damage" (the message of the test on Ubuntu): as long as
\* /etc/shadow is protected from ordinary users, trying to write and to remove
\* it leaves it as it was, also when the program runs as root.
ShadowSurvives == ~world_write => shadow = "intact"

\* PAM is reported as present exactly when some part of it is installed.
PamReported ==
  report.test = "auth_log" /\ undisturbed =>
    (report.pam <=> report.installed # {})

\* The invariant of the checks: types, and what they must not harm or miss.
NetInv == NetTypeOK /\ ShadowSurvives /\ PamReported

\* A listening port is printed, and it is printed once, even if several sockets
\* have it; what is no port of a socket (a header, a foreign address) is not.
PortsExact ==
  report.test \in {"tcp", "udp"} =>
    /\ IsInjective(report.ports)
    /\ ToSet(report.ports) = ToSet(report.sockets)

\* The bounds of an average, if no transfer was skipped.
InRange(r, k) ==
  Len(r.times[k]) = Transfers =>
    /\ r.divisor * Min(ToSet(r.times[k])) <= r.totals[k]
    /\ r.totals[k] <= r.divisor * Max(ToSet(r.times[k]))

\* The average download time of each protocol lies between the smallest and
\* the largest time measured with it.  A download that failed counts as one in
\* no time, so the average may then be too small, but it is never too large.
DownloadAverageInRange ==
  report.test = "download" =>
    \A k \in Downloads :
      /\ InRange(report, k)
      /\ \A bound \in Times :
           (\A n \in DOMAIN report.times[k] : report.times[k][n] <= bound)
             => report.totals[k] <= report.divisor * bound

\* A run in which nothing fails leaves no test file on a system it knows, not
\* even one that an earlier run, killed or failing, has left.
TestFileCleaned ==
  main = "done" /\ undisturbed /\ host \in {"Ubuntu", "QNX"} =>
    datafile = "absent"

\* "Average Upload Performance ... Avg Time": the average of ten upload times
\* is one of the values between them.
UploadAverageInRange == report.test = "upload" => InRange(report, "upload")
==============================================================================
