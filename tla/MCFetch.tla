------------------------------- MODULE MCFetch --------------------------------
EXTENDS Fetch

Short(type, name, size) == [type |-> type, name |-> name, size |-> size]
Good == [declared |-> 0, packed |-> 1, severed |-> 0]
With(fields, members) == fields @@ [members |-> members]

\* Archives a commit may have, or an origin may serve: ordinary ones first, then
\* those the bounds are for.
MCArchives ==
    {With(Good, m) : m \in {
        <<Short("dir", <<"r">>, 0), Short("file", <<"r", "package.json">>, 3)>>,
        <<Short("global", <<>>, 1), Short("name", <<"r", "k8s", "a">>, 1),
          Short("file", <<"r">>, 2), Short("file", <<".", ".env">>, 1)>>,
        <<Short("file", <<"r">>, 2), Short("file", <<"r">>, 1)>>,
        <<Short("file", <<"r">>, 1), Short("dir", <<"r">>, 1)>>,
        <<Short("file", <<"r", "a">>, 0), Short("file", <<"r">>, 0)>>,
        <<Short("name", <<"..", "a">>, 0), Short("other", <<"r">>, 1), Short("file", <<"a">>, 1)>>,
        <<Short("name", <<"..", "a">>, 0), Short("file", <<"a">>, 1)>>,
        <<Short("file", <<"a">>, 0), Short("file", <<"b">>, 0), Short("file", <<"c">>, 0)>>,
        <<Short("file", <<"a">>, 3), Short("file", <<"b">>, 3)>>,
        <<Short("file", <<"a">>, 4)>>,
        <<Short("file", <<"a">>, 1), Short("link", <<"b">>, 0)>>,
        <<Short("name", <<"a">>, 3)>>,
        <<Short("dir", <<"long">>, 0)>>,
        <<Short("other", <<"a">>, 8)>>}}
    \cup {With([Good EXCEPT !.packed = 3], <<Short("file", <<"a">>, 1)>>),
          With([Good EXCEPT !.declared = 3], <<Short("file", <<"a">>, 1)>>),
          With([Good EXCEPT !.severed = 2], <<Short("file", <<"a">>, 2), Short("file", <<"b">>, 3)>>)}

Github == [base |-> "https://github.com/", parts |-> <<"o", "r">>]
MCRequests ==
    {[url |-> Github, branch |-> b, pin |-> p] : b \in {"", "malformed"}, p \in {NoSha} \cup Shas}
    \cup {[url |-> Github, branch |-> "main", pin |-> "malformed"],
          [url |-> [Github EXCEPT !.base = "http://github.com/"], branch |-> "main", pin |-> NoSha],
          [url |-> [Github EXCEPT !.parts[2] = ".."], branch |-> "main", pin |-> NoSha]}
===============================================================================
