------------------------------ MODULE MCDiscovery ------------------------------
(* Two hosts, and room for one `adb connect` or for two as the setting changes: *)
(* the second waits until the first is answered, and goes on waiting when room  *)
(* is made by the setting alone; lowered, the setting leaves both under way.    *)
EXTENDS Discovery, TLC

HostSymmetry == Permutations(Hosts)

\* m_manualScan and the hosts a sweep found are read at the end of a sweep of the subnet
\* only: between sweeps neither is live, and in a sweep of a range what it found is not.
LiveState ==
    <<IF scanning THEN svc ELSE [svc EXCEPT !.manual = FALSE],
      scanning, left, IF scanning /\ ~svc.manual THEN found ELSE {}, quick, online,
      queue, connecting, reg>>
=============================================================================
