--------------------------- MODULE MCGeneratedCode ---------------------------
(* Five files.  base and twin have one package and one base name, in two   *)
(* directories, and so one module; twin imports left, which imports base:  *)
(* with twin's module in its place the imports come round.  opts has two   *)
(* dots in its name, top no package.  Messages begin with a capital, a     *)
(* small letter or an underscore, one is nested, one has a name too long   *)
(* for a stub; there is an enum, an extension, and a file that the request *)
(* does not describe.  Descriptors of one to four bytes take every padding. *)
EXTENDS GeneratedCode, TLC

CONSTANTS base, twin, opts, left, top, ghost

Word(w) == [w |-> w, cap |-> "small"]
Name(w) == [w |-> w, cap |-> "capital"]
Odd(w) == [w |-> w, cap |-> "none"]
Proto == <<Word("proto")>>

Inner == <<base, <<Name("Base"), Name("Inner")>>>>
Kind == <<base, <<Name("Kind")>>>>
Opt == <<opts, <<Name("Opt")>>>>
Left == <<left, <<Name("Left")>>>>
Hid == <<top, <<Odd("_hid")>>>>
Low == <<top, <<Word("low")>>>>

MCFiles == {base, twin, opts, left, top}
MCToGenerate == <<ghost, twin, base, opts, left, top>>
MCBasename == base :> << <<Word("base")>>, Proto >> @@ twin :> << <<Word("base")>>, Proto >>
           @@ opts :> << <<Word("my"), Word("opts")>>, <<Word("v"), Odd("1")>>, Proto >>
           @@ left :> << <<Word("left")>>, Proto >> @@ top :> << <<Word("top")>>, Proto >>
MCPackage == base :> <<Word("p")>> @@ twin :> <<Word("p")>> @@ opts :> <<Word("p")>>
          @@ left :> <<Word("p"), Word("q")>> @@ top :> <<>>
MCMessages == base :> {<<Name("Base")>>, Inner[2]} @@ twin :> {<<Name("Twin")>>}
           @@ opts :> {Opt[2]} @@ left :> {Left[2]} @@ top :> {Hid[2], Low[2]}
MCEnums == base :> {Kind[2]} @@ twin :> {} @@ opts :> {} @@ left :> {} @@ top :> {}
MCDependency == base :> <<>> @@ opts :> <<>> @@ twin :> <<left>>
             @@ left :> <<base, opts>> @@ top :> <<left, opts>>
MCUses == base :> {Inner, Kind} @@ opts :> {} @@ twin :> {Left}
       @@ left :> {Inner, Kind, Opt} @@ top :> {Hid, Low}
MCExtends == base :> {} @@ twin :> {} @@ opts :> {} @@ left :> {Opt} @@ top :> {}
MCLong == {Inner}
MCSerialized == base :> <<10>> @@ opts :> <<255, 129>> @@ twin :> <<10, 0>>
             @@ left :> <<1, 2, 3>> @@ top :> <<0, 64, 200, 77>>
Calls(w, in, out) == [name |-> <<Name(w)>>, input |-> in, output |-> out]
MCServices == base :> {} @@ twin :> {} @@ opts :> {}
           @@ left :> {[name |-> Name("Svc"), methods |-> {Calls("Get", Left, Opt)}]}
           @@ top :> {[name |-> Name("Svc"), methods |->
                {Calls("Get", Hid, Left), Calls("Put", Low, Hid), Calls("List", Opt, Low)}]}
=============================================================================
