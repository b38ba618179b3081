-------------------------- MODULE MCCodeKnowledge --------------------------
(* A Java file whose functions call one of another Java file, which moves to  *)
(* another line and is broken by a syntax error, a Python file and, in some   *)
(* repositories, a TypeScript file.                                           *)
EXTENDS CodeKnowledge

CONSTANTS A, B, P, T

MCFiles == {A, B, P, T}
MCVersions == {1, 2}

Function(name, line) == [name |-> name, line |-> line]

MCDecls ==
  [f \in MCFiles |-> [v \in MCVersions |->
     IF f = A THEN {Function("a", 1)}
     ELSE IF f = B THEN {Function("b", v)}
     ELSE IF f = P THEN {Function("p", v)}
     ELSE {}]]

MCCalls ==
  [f \in MCFiles |-> [v \in MCVersions |->
     IF f = A THEN {"b"} ELSE IF f = P THEN {"p"} ELSE {}]]

MCImports ==
  [f \in MCFiles |-> [v \in MCVersions |->
     IF f = A THEN {[file |-> B, name |-> "b"]} ELSE {}]]

MCBranches ==
  {b \in [MCFiles -> MCVersions \cup {Absent}] :
     b[T] # 2 /\ \A f \in MCFiles \ {T} : b[f] # Absent}

MCInvalid == {<<A, 2>>, <<P, 2>>}
=============================================================================
