---------------------------- MODULE MCCollection ----------------------------
(* Instances of Collection for TLC: two pages, one bare ("a.com") and one  *)
(* given with its www. prefix ("www.b.com"), one pcap worker and one      *)
(* Tor-log worker.  With the default -m 25 the pcap worker's bare header  *)
(* (24 bytes) and the Tor worker's "none" (4 bytes) are rejected, a pcap  *)
(* with one packet and an accepted Tor log are stored.                    *)
EXTENDS Collection

CONSTANTS r1, r2

MCRows ==
    << [id |-> r1, url |-> [lead |-> 0, scheme |-> FALSE, www |-> FALSE]],
       [id |-> r2, url |-> [lead |-> 1, scheme |-> FALSE, www |-> FALSE]] >>

(* The same file with the second row's id repeated on a third row.        *)
MCRowsDup == MCRows \o << [id |-> r2, url |-> [lead |-> 0, scheme |-> FALSE, www |-> FALSE]] >>
=============================================================================
