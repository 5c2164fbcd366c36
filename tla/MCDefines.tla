------------------------------ MODULE MCDefines ------------------------------
(***************************************************************************)
(* An instance of Defines: amd64, i486 and an architecture nobody knows,   *)
(* seven variables, and packages with one or two defines files.            *)
(***************************************************************************)
EXTENDS Defines, TLC

MCBase == {"ABSPLITDBG", "ABSTRIP", "AB_HWCAPS", "USECLANG", "PKGDEP",
           "AB_FLAGS_Y2038", "AUTOTOOLS_DEF"}
MCExported == MCBase \ {"AB_HWCAPS"}
MCDefaults == [b \in MCBase |->
    CASE b \in {"ABSPLITDBG", "ABSTRIP"}       -> "on"
      [] b \in {"PKGDEP", "AUTOTOOLS_DEF"}     -> "unset"
      [] OTHER                                 -> "off"]
MCGroups == [amd64 |-> <<"64bit", "mainline">>, i486 |-> <<"retro">>, i686 |-> <<>>]
MCArchSets == [amd64 |-> {}, i486 |-> {"AB_FLAGS_Y2038"}, optenv32 |-> {}, noarch |-> {}]

Y2038     == "AB_FLAGS_Y2038"
Opts      == "AUTOTOOLS_DEF"

Scalarly(b, s, on) == <<[base |-> b, as |-> s, op |-> "set", kind |-> "scalar", on |-> on]>>
On(b, s)   == Scalarly(b, s, TRUE)
Off(b, s)  == Scalarly(b, s, FALSE)
Add(b)     == <<[base |-> b, as |-> Plain, op |-> "append", kind |-> "array", on |-> TRUE]>>
AddTo(b, s) == <<[base |-> b, as |-> s, op |-> "append", kind |-> "array", on |-> TRUE]>>
More(b, s) == <<[base |-> b, as |-> s, op |-> "extend", kind |-> "array", on |-> TRUE]>>

File(lines, host) ==
    [lines |-> lines, ABHOST |-> host, allow |-> NoAllow, fail |-> {}, ok |-> TRUE]

\* What a defines file may say.
Texts == { On("PKGDEP", Plain),
           Off(Y2038, Plain),
           Off(Y2038, Plain) \o On(Y2038, "amd64") \o Off(Y2038, "64bit"),
           On(Y2038, "amd64") \o Off(Y2038, Plain),
           On(Y2038, "64bit") \o On(Y2038, "mainline"),
           Off(Y2038, "i486") \o On(Y2038, "retro"),
           Add(Opts),
           Add(Opts) \o More(Opts, "amd64"),
           Add(Opts) \o AddTo(Opts, "64bit"),
           More(Opts, "64bit") \o On("USECLANG", "amd64"),
           On("ABSPLITDBG", Plain) \o Off("ABSTRIP", "i486"),
           On("AB_HWCAPS", Plain) \o Off("ABSPLITDBG", "amd64") }

\* An array beside a scalar, in a file of its own.
Mixed == On("USECLANG", Plain) \o More("USECLANG", "amd64")

Tops(host) ==
    {File(x, h) : x \in Texts \cup {Mixed}, h \in {None, host}}
    \cup { [File(On("PKGDEP", Plain), host) EXCEPT !.allow = a, !.fail = f] :
              a \in {NoAllow, [glob |-> FALSE, hosts |-> {"amd64"}],
                              [glob |-> TRUE, hosts |-> {"i486"}]},
              f \in {{}, {NoArch}} }
    \cup { [File(Off(Y2038, Plain), None) EXCEPT !.ok = FALSE] }

\* The tree of a package: its file in autobuild/, and perhaps one elsewhere.
Elsewhere == {<<"amd64", FALSE>>, <<"64bit", FALSE>>, <<NoArch, FALSE>>,
              <<Native32, FALSE>>, <<Top, TRUE>>, <<"amd64", TRUE>>}
OneFile(host) ==
    { <<Top, FALSE>> :> f : f \in Tops(host) } \cup
    { <<"amd64", FALSE>> :> File(On(Y2038, Plain), host) }
TwoFiles(host) ==
    { <<Top, FALSE>> :> File(x, h) @@ p :> File(y, host) :
        x \in Texts, h \in {None, host}, p \in Elsewhere, y \in Texts }

Usual == [arch |-> None, custom |-> None, stage |-> "unset", modifiers |-> "none",
          bootstrap |-> FALSE, installed |-> FALSE, multilib |-> FALSE]
Situations ==
    { Usual, [Usual EXCEPT !.arch = "i486"], [Usual EXCEPT !.arch = "i686"],
      [Usual EXCEPT !.custom = "i486"],
      [Usual EXCEPT !.stage = "on"], [Usual EXCEPT !.stage = "odd"],
      [Usual EXCEPT !.modifiers = "+stage2"],
      [Usual EXCEPT !.modifiers = "malformed"], [Usual EXCEPT !.multilib = TRUE],
      [Usual EXCEPT !.bootstrap = TRUE],
      [Usual EXCEPT !.bootstrap = TRUE, !.stage = "on", !.modifiers = "-stage2"],
      [Usual EXCEPT !.bootstrap = TRUE, !.stage = "on", !.installed = TRUE] }

Given(s, h, t) ==
    [arch |-> s.arch, custom |-> s.custom, stage |-> s.stage, modifiers |-> s.modifiers,
     bootstrap |-> s.bootstrap, installed |-> s.installed, multilib |-> s.multilib,
     host |-> h, tree |-> t]

MCInputs ==
    UNION { { Given(s, h, t) : s \in Situations, t \in OneFile(h) } \cup
            { Given(s, h, t) : s \in {Usual, [Usual EXCEPT !.stage = "on"]}, t \in TwoFiles(h) } :
            h \in {None, NoArch, Native32, "i486"} }
=============================================================================
