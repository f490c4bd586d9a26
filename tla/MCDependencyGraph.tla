-------------------------- MODULE MCDependencyGraph --------------------------
(* All the graphs on three packages, cyclic ones and self-loops included,    *)
(* and the three ways construction fails.                                    *)
EXTENDS DependencyGraph

CONSTANTS app, lib, dep

Ids3 == {app, lib, dep}

AllGraphs == [packages : {{app, lib, dep}}, resolve : {TRUE},
              nodes : {{app, lib, dep}}, deps : SUBSET (Ids3 \X Ids3)]

\* A resolution is missing, a node is not listed, a dependency is not listed;
\* and a consistent graph that lacks one of the packages asked about.
Others == [packages : {{app, lib}}, resolve : BOOLEAN,
           nodes : {{app}, {app, dep}}, deps : SUBSET {<<app, lib>>, <<app, dep>>}]

MCMetadatas == AllGraphs \cup Others
=============================================================================
