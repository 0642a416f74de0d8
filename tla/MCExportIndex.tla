--------------------------- MODULE MCExportIndex ---------------------------
(* Two stores export two volumes whose default names collide (".env", "env")
   and an image.  The volume captured under "env" varies.                    *)
EXTENDS ExportIndex, TLC

CONSTANTS p1, p2

MCPart  == {".", "unnamed", "..", "env", ".env", "app", "a", "b", "a\\b", "a:", ".\\"}
MCSplit == [x \in MCPart |-> CASE x = "a\\b" -> <<"a", "b">> [] x = ".\\" -> <<>>
                               [] OTHER -> <<x>>]
MCSafe  == [x \in MCPart |-> CASE x = ".env" -> "env" [] x = "." -> "unnamed"
                               [] x \in {"a\\b", "a:"} -> "a" [] OTHER -> x]

M(name, type) == [name |-> name, type |-> type]
Root == M(<<>>, "dir")
A    == M(<<"a">>, "dir")
AB   == M(<<"a", "b">>, "reg")

Captured ==
  {<<Root>>,
   <<Root, A, AB, M(<<"b">>, "reg")>>,
   <<Root, M(<<"a">>, "reg"), M(<<"b">>, "link")>>,
   <<Root, A, M(<<"a", "b">>, "link"), M(<<"a", "a">>, "reg")>>,
   <<Root, M(<<"a\\b">>, "reg"), M(<<"a", "a">>, "reg")>>,
   <<Root, A, AB, M(<<"a\\b">>, "reg")>>,
   <<Root, M(<<"a">>, "reg"), M(<<"a\\b">>, "reg")>>,
   <<Root, AB, M(<<"a:">>, "reg")>>}

MCTars == {"env" :> t @@ ".env" :> <<Root, M(<<"b">>, "reg")>> @@ "app" :> <<M(<<"a">>, "reg")>> :
             t \in Captured}

R(res, path, raw, yes) ==
  [res |-> res, path |-> path, raw |-> raw, out |-> NoFile, yes |-> yes]

MCRequests ==
  {R("env", NoPath, FALSE, TRUE), R(".env", NoPath, FALSE, TRUE),
   R("env", <<"a">>, FALSE, FALSE), R("env", <<"a", "b">>, TRUE, FALSE),
   R("env", <<"a\\b">>, FALSE, FALSE), R("env", <<"b">>, TRUE, TRUE),
   R("env", <<".\\">>, FALSE, FALSE), R("env", <<"..">>, FALSE, FALSE),
   R("app", NoPath, FALSE, FALSE),
   [R("env", <<"b">>, FALSE, TRUE) EXCEPT
      !.out = [dir |-> "volumes", parts |-> <<"env">>, sum |-> <<>>]]}
=============================================================================
