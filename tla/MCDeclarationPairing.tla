------------------------- MODULE MCDeclarationPairing -------------------------
EXTENDS DeclarationPairing

(* Two namespaces share a simple name; a global array model has another. *)
MCCatalogue == {[qualified |-> "A.User", name |-> "User", kind |-> "model"],
                [qualified |-> "B.User", name |-> "User", kind |-> "model"],
                [qualified |-> "Tags", name |-> "Tags", kind |-> "model"]}

MCNames == {"User", "Tags"}
MCKinds == [generated |-> {"model", "array", "scalar"}, authored |-> {"model", "array"}]

Entry(t, g, a) == [typespec |-> t, generated |-> g, authored |-> a]
MCEntries == {Entry("User", None, "Tags"), Entry("A.User", "User", "User"),
              Entry("B.User", "Tags", None), Entry("Tags", "User", None),
              Entry(None, "Tags", None)}

MCTypeSpecIgnores == {<<>>, <<"User">>, <<"A.User">>, <<"Tags", "Tags">>, <<None>>}
MCLaneIgnores == [generated |-> {<<>>, <<"User">>},
                  authored |-> {<<>>, <<"Tags">>, <<"User", "User">>}]

(* The mapping of the README's promise: both sharers of the name qualified. *)
MCBridge == {Entry("A.User", "User", "User"), Entry("B.User", "Tags", "Tags")}
MCNoIgnores == {<<>>}

(* A namespace whose declaration is named, between backticks, A.User. *)
MCEscaped == {[qualified |-> "A.User", name |-> "User", kind |-> "model"],
              [qualified |-> "B.A.User", name |-> "A.User", kind |-> "model"]}
MCEscapedNames == {"User", "A.User"}
MCNoEntries == {}
MCIgnoreQualified == {<<"A.User">>}
MCIgnoreBoth == [generated |-> {<<"User", "A.User">>}, authored |-> {<<>>}]
MCNoLaneIgnores == [generated |-> {<<>>}, authored |-> {<<>>}]
=============================================================================
