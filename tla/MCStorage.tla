------------------------------ MODULE MCStorage ------------------------------
\* An instance of Storage for TLC.
EXTENDS Storage

\* A user with an image and a job with two artifacts, of which the name of one starts
\* with that of the other.
Image1 == UploadedImageKey("u1", "i1", "original.png")
Mesh == ArtifactKey("u1", "j1", "mesh")
MeshObj == ArtifactKey("u1", "j1", "mesh.obj")
SomeKeys == {Image1, Mesh, MeshObj}

\* In the order of the strings.
SomeOrder == [k \in SomeKeys |-> CASE k = Image1 -> 1 [] k = Mesh -> 2 [] k = MeshObj -> 3]

\* A user, a job and a job's artifacts, written in several ways; an object whose
\* name is the beginning of another's; a job without objects, a refused and the
\* empty prefix.
SomePrefixes == { <<"users", "u1", "">>, <<".", "users", "", "u1", "jobs", "j1">>,
                  <<"users", "u1", "jobs", "j1", "artifacts">>,
                  <<"users", "u1", "jobs", "j1", "artifacts", "mesh">>,
                  <<"users", "u1", "jobs", "j3", "">>,
                  <<"users", "..", "users", "u1">>, <<"">> }

SomeIds == {"u1", "i1", "j1", "j3"}
LongerNames == {<<"mesh.obj", "mesh">>}
==============================================================================
