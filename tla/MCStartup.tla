----------------------------- MODULE MCStartup ------------------------------
(***************************************************************************)
(* Instances of Startup for TLC.  The plans are PlanSchema documents: two  *)
(* that both validators accept, one with frontmatter and a cycle, one      *)
(* legacy plan without frontmatter and one legacy plan a human must        *)
(* review; what the commands make of each is PlanSchema's verdict.         *)
(***************************************************************************)
EXTENDS Startup, PlanSchema

T(id, deps) == [id |-> id, deps |-> deps, tests |-> "some", waived |-> FALSE, accept |-> TRUE]
Doc(front, mode, tasks) ==
  [front |-> front, named |-> TRUE, current |-> TRUE, mode |-> mode, fields |-> TRUE,
   tasks |-> tasks]

Docs == [ first   |-> Doc(TRUE, "absent", <<T("a", <<>>), T("b", <<"a">>)>>),
          second  |-> Doc(TRUE, "known", <<T("c", <<>>)>>),
          cyclic  |-> Doc(TRUE, "absent", <<T("a", <<"a">>)>>),
          unknown |-> Doc(TRUE, "absent", <<T("a", <<"x">>)>>),
          legacy  |-> Doc(FALSE, "known", <<T("a", <<>>)>>),
          review  |-> Doc(FALSE, "review", <<T("a", <<>>)>>) ]

MCPlan == DOMAIN Docs
MCTask == UNION {Ids(Docs[d].tasks) : d \in MCPlan}
MCSchemaCheck == [d \in MCPlan |-> SchemaVerdict(Docs[d])]
MCValidPlans == {d \in MCPlan : FrontmatterOK(Docs[d])}
MCDoctorFails == {d \in MCPlan : DoctorRejects(Docs[d])}
MCFirstReady == [d \in MCPlan |-> FirstTask(Docs[d])]
MCTasksOf == [d \in MCPlan |-> Ids(Docs[d].tasks)]
=============================================================================
