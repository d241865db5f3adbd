---------------------------- MODULE MCPrefixDlls ----------------------------
(* Names of every sort in prefixes of every sort, what is installed staying *)
(* as it is; some of them while it comes and goes; then all that the        *)
(* launcher installs, with no game.                                         *)
EXTENDS PrefixDlls, TLC

Dll(of, in, extra, install) == [of |-> of, builtin |-> in, extra |-> extra, kind |-> install]

\* d3d11, d3d12, ddraw, nvapi64, amdxcffx64, one that w2 has lost, an icu.
d3d11 == Dll("dxvk", Runners, {}, "dll")
amdxcffx64 == Dll("fsr4", {}, {}, "fsr4")
lost == Dll("none", {"w1", "umu"}, {}, "proton")
MCDlls == {d3d11, Dll("vkd3d", Runners, {}, "dll"), Dll("d7vk", Runners, {}, "dll"),
           Dll("nvapi", {"umu"}, {}, "dll"), amdxcffx64, lost, Dll("none", {}, {"w1"}, "proton")}

Date(a, b, c) == [r \in Runners |-> CASE r = "w1" -> a [] r = "w2" -> b [] OTHER -> c]
Prefix(p, s, i, k) == [prefix |-> p, stamp |-> s, image |-> i, kernel |-> k, inf |-> Wines,
                       date |-> Date("monday", "tuesday", "friday")]

\* A wine.inf that is not there, two of the same date.
Undated(p) == {[p EXCEPT !.inf = inf] : inf \in SUBSET Wines} \cup
              {[p EXCEPT !.date = d] : d \in {Date("monday", "monday", "friday"),
                                              Date("monday", "tuesday", "tuesday")}}

\* An image without a prefix has no system32.
MCPrefixes == {Prefix("alone", "none", "none", k) : k \in BOOLEAN} \cup
    {Prefix(p, s, i, k) : p \in {"packaged", "proton"}, s \in {"other", "disable"},
                          i \in {"none", "builtin", "own", "w2", "component"}, k \in BOOLEAN} \cup
    {Prefix("single", s, i, FALSE) : s \in {"other", "disable"}, i \in {"none", "builtin", "own"}}

Busy(d, p, who) == d @@ p @@ [busy |-> who]

MCCases ==
    {Busy(lost, q, {"play"}) : q \in UNION {Undated(p) :
        p \in {Prefix("alone", "none", "none", TRUE), Prefix("proton", "monday", "none", FALSE)}}} \cup
    {Busy(d, p, {"play"}) : d \in MCDlls, p \in MCPrefixes} \cup
    {Busy(d3d11, Prefix("alone", "none", "none", FALSE), {"play", "install"}),
     Busy(amdxcffx64, Prefix("packaged", "other", "none", FALSE), {"play", "install"}),
     Busy(lost, Prefix("alone", "none", "none", FALSE), {"play", "install"})} \cup
    {Busy([lost EXCEPT !.kind = k], Prefix("alone", "none", "none", FALSE), {"install"}) : k \in Kinds}
=============================================================================
