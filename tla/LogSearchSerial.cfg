SPECIFICATION FairSpec
CONSTANT List <- SixWorkloads
PROPERTY ImplementsSearch
