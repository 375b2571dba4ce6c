-------------------------------- MODULE MCLoad --------------------------------
(* Directories of up to three files over routes that only partly overlap.   *)
EXTENDS Load

SmallDirectories == UNION {[1 .. n -> Entries] : n \in 0 .. 3}

\* Requests 1 to 3: "/a/{x}" matches the first two, "/{x}/b" the last two.
Crossing == ("POST /a/{x}" :> {1, 2}) @@ ("POST /{x}/b" :> {2, 3}) @@ ("POST /c" :> {4})
=============================================================================
