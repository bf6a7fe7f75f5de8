CONSTANTS
    Burrows <- TwoBurrows
    PrimaryBurrow = "b1"
    Schemas <- AllSchemas
    Deployments <- AllDeployments
    Statements <- AllStatements
    MaxRows = 2
    MaxID = 2
SPECIFICATION Spec
INVARIANTS
    OneTable
    AnswersAsOne
    SamePlan
