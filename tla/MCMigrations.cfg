\* Two containers and an operator, from every revision the database can be at.
CONSTANTS
    HeadRevision = 7
    Creates <- SchemaCreates
    Drops <- SchemaDrops
    Declared <- Metadata
    Containers = {c1, c2}
    Operators = {o1}
SPECIFICATION Spec
INVARIANTS
    RefusedOnlyWhenOvertaken
PROPERTIES
    ImplementsRevisions
