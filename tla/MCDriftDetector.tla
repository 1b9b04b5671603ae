-------------------------- MODULE MCDriftDetector --------------------------
(***************************************************************************)
(* Instances of DriftDetector for TLC: two modules, the domain as a        *)
(* directory of up to two files and one file of the use cases.             *)
(***************************************************************************)
EXTENDS DriftDetector

MCModules == {"src/domain", "src/use_cases/run.py"}
MCNames   == {"load", "save"}

D(kind, name, args, doc) ==
    [kind |-> kind, name |-> name, args |-> args, doc |-> doc]
Fun(args, doc) == D("function", "load", args, doc)
Method == D("function", "load", <<"self", "p">>, TRUE)
Class  == D("class", "save", <<>>, FALSE)

Vendor   == [root |-> "openai", rest |-> ""]
VendorIn == [root |-> "openai", rest |-> "types"]
DomainIn == [root |-> "src", rest |-> "openai"]

F(parses, defs, imports) ==
    [parses |-> parses, defs |-> defs, imports |-> imports]

DefLists == {<<>>, <<Class>>, <<Fun(<<"p">>, TRUE)>>, <<Fun(<<"q">>, TRUE)>>,
             <<Fun(<<"p">>, FALSE), Class>>, <<Method, Fun(<<"q">>, TRUE)>>}
DomainFiles ==
    {F(TRUE, d, im) : d \in DefLists,
        im \in {{}, {VendorIn}, {Vendor, DomainIn}, {DomainIn}}}
      \cup {F(FALSE, <<>>, {})}
UseCaseFiles ==
    {F(TRUE, d, im) :
        d \in {<<>>, <<Fun(<<"p">>, TRUE)>>},
        im \in {{}, {DomainIn}, {Vendor, DomainIn}}}

MCProjects ==
    {[m \in MCModules |-> IF m = "src/domain" THEN dom ELSE use] :
        dom \in {<<>>} \cup {<<f>> : f \in DomainFiles}
                  \cup {<<f, g>> : f \in {x \in DomainFiles : x.imports = {}},
                                   g \in DomainFiles},
        use \in {<<>>} \cup {<<f>> : f \in UseCaseFiles}}

C(m, kind, name, params, doc) ==
    [module |-> m, kind |-> kind, name |-> name, params |-> params, doc |-> doc]
S(contracts, required) ==
    [contracts |-> contracts, forbidden |-> {"openai"}, required |-> required,
     keys |-> {"version"}]

\* Two contracts on one module, in both orders around one on the other.
MCSpecs ==
    {S(<<>>, {"errors"}),
     S(<<C("src/domain", "function", "load", <<"p">>, TRUE),
         C("src/domain", "class", "save", <<>>, FALSE)>>, {"version"}),
     S(<<C("src/domain", "class", "save", <<>>, FALSE),
         C("src/use_cases/run.py", "function", "load", <<"p">>, FALSE),
         C("src/domain", "function", "load", <<"p">>, FALSE)>>, {})}
=============================================================================
